---------------------------- MODULE Spec2Model ----------------------------
(***************************************************************************)
(* A model of one p2pim node (src/src/reactor.rs and the services it       *)
(* drives).  The node is a lessor (it handles ReceivedLeaseProposal events  *)
(* in spawned tasks) and a renter (the operator calls lease); both sides    *)
(* share the chain-event loop and the persistence service.                 *)
(*                                                                         *)
(*   SpecLessor : peer-event loop + proposal tasks + chain + chain loop    *)
(*   SpecLease  : lease calls + rejections + chain                         *)
(*   SpecChain  : lease calls + chain + chain loop                         *)
(*   Spec       : lease calls + rejections + chain + chain loop            *)
(***************************************************************************)
EXTENDS Integers, Sequences, FiniteSets, TLC

(***************************************************************************)
(* Bounds of the model.                                                    *)
(***************************************************************************)
MaxTasks == 2
MaxLeases == 1
MaxEvents == 2
MaxBlocks == 2
MaxListeners == 2
MaxNotifies == 2
MaxAppends == 3
MaxBlockNumber == 3
MaxCommands == 1

(***************************************************************************)
(* Option values: <<>> is None, <<x>> is Some(x).                          *)
(***************************************************************************)
None == <<>>

Some(x) == <<x>>

(***************************************************************************)
(* Identities.  Own is account_storage() of this node.  A peer's address   *)
(* is derived from the public key the directory holds for it.              *)
(***************************************************************************)
Own == "a0"

Peers == {"p1", "p2", "p3"}

\* Peers whose Identify handshake filled the directory.
known_peers == {"p1", "p2"}

Nonces == {1, 2}

find_public_key(peer_id) ==
    IF peer_id \in known_peers THEN Some(<<"pk", peer_id>>) ELSE None

into_address(public_key) ==
    IF public_key[2] = "p1" THEN "a1" ELSE IF public_key[2] = "p2" THEN "a2" ELSE "a3"

\* Tokens with a (token, adjudicator) pair read from the master record.
deployments == {"t1"}

(***************************************************************************)
(* Lease terms.  lease_duration is a Duration, kept in milliseconds;       *)
(* proposal_expiration is a SystemTime, kept in seconds since the epoch.   *)
(***************************************************************************)
Terms(token, price, penalty, expiration, duration) ==
    [token_address |-> token, price |-> price, penalty |-> penalty,
     proposal_expiration |-> expiration, lease_duration |-> duration]

as_secs(duration) == duration \div 1000

(***************************************************************************)
(* Lessor policy (src/src/lessor.rs).  An Ask holds the two ranges, the    *)
(* two minima and max_penalty_rate as the fraction num/den.                *)
(***************************************************************************)
Ask1 ==
    [duration_start |-> 60000, duration_end |-> 7200000,
     size_start |-> 1, size_end |-> 1024,
     min_tokens_total |-> 1, min_tokens_gb_hour |-> 1,
     max_penalty_num |-> 1, max_penalty_den |-> 1]

token_ask == [t \in {"t1", "t2"} |-> Ask1]

(***************************************************************************)
(* BigInt arithmetic of the price rate.  A number is six limbs in base     *)
(* 2^15, lowest first (90 bits), so that no step of the evaluation leaves  *)
(* 32 bits.  The small operand of big_mul and big_div is below 2^15.       *)
(***************************************************************************)
Limb == 32768

big(n) == <<n % Limb, (n \div Limb) % Limb, n \div (Limb * Limb), 0, 0, 0>>

\* x * small, limb by limb with the carry
big_mul(x, small) ==
    LET t1 == x[1] * small
        t2 == (x[2] * small) + (t1 \div Limb)
        t3 == (x[3] * small) + (t2 \div Limb)
        t4 == (x[4] * small) + (t3 \div Limb)
        t5 == (x[5] * small) + (t4 \div Limb)
        t6 == (x[6] * small) + (t5 \div Limb)
    IN <<t1 % Limb, t2 % Limb, t3 % Limb, t4 % Limb, t5 % Limb, t6 % Limb>>

\* times 2^30: two limbs up
big_mul_gb(x) == <<0, 0, x[1], x[2], x[3], x[4]>>

\* x / small, long division from the highest limb with the remainder
big_div(x, small) ==
    LET c6 == x[6]
        c5 == ((c6 % small) * Limb) + x[5]
        c4 == ((c5 % small) * Limb) + x[4]
        c3 == ((c4 % small) * Limb) + x[3]
        c2 == ((c3 % small) * Limb) + x[2]
        c1 == ((c2 % small) * Limb) + x[1]
    IN <<c1 \div small, c2 \div small, c3 \div small,
         c4 \div small, c5 \div small, c6 \div small>>

\* x < y: the highest limb that differs decides
big_lt(x, y) ==
    IF x[6] # y[6] THEN x[6] < y[6]
    ELSE IF x[5] # y[5] THEN x[5] < y[5]
    ELSE IF x[4] # y[4] THEN x[4] < y[4]
    ELSE IF x[3] # y[3] THEN x[3] < y[3]
    ELSE IF x[2] # y[2] THEN x[2] < y[2]
    ELSE x[1] < y[1]

\* tokens_gb_hour = price_bi * secs_hour * bytes_gb / as_secs * size,
\* evaluated left to right.
tokens_gb_hour(price, secs, size) ==
    big_mul(big_div(big_mul_gb(big_mul(big(price), 3600)), secs), size)

\* tokens_gb_hour < min_tokens_gb_hour
PriceRateTooSmall(price, secs, size, min) ==
    big_lt(tokens_gb_hour(price, secs, size), big(min))

\* max_penalty_rate < penalty / price in f32: x/0 is +inf for x > 0, 0/0 is
\* NaN and every comparison with NaN is false.
PenaltyRateTooHigh(ask, price, penalty) ==
    IF price = 0 THEN penalty > 0
    ELSE ask.max_penalty_num * price < penalty * ask.max_penalty_den

TotalTokensTooSmallReversed(ask, price) == price > ask.min_tokens_total

\* lease_terms.price < ask.min_tokens_total
TotalTokensTooSmall(ask, price) == price < ask.min_tokens_total

proposal_size_first(asks, lease_terms, size) ==
    IF lease_terms.token_address \notin DOMAIN asks THEN "token not accepted"
    ELSE LET ask == asks[lease_terms.token_address]
             d == lease_terms.lease_duration
         IN IF ~(ask.size_start <= size /\ size < ask.size_end)
            THEN (IF size < ask.size_start THEN "size too small"
                                           ELSE "size too big")
            ELSE IF ~(ask.duration_start <= d /\ d < ask.duration_end)
            THEN (IF d < ask.duration_start THEN "duration too short"
                                            ELSE "duration too long")
            ELSE IF TotalTokensTooSmall(ask, lease_terms.price)
            THEN "total tokens too small"
            ELSE IF as_secs(d) = 0 THEN "panic"
            ELSE IF PriceRateTooSmall(lease_terms.price, as_secs(d), size,
                                      ask.min_tokens_gb_hour)
            THEN "price per gb per hour too small"
            ELSE IF PenaltyRateTooHigh(ask, lease_terms.price, lease_terms.penalty)
            THEN "penalty too high"
            ELSE "ok"

\* Service::proposal of a lessor whose ask table is asks: the division by
\* as_secs() panics for a duration under a second.
proposal_of(asks, lease_terms, size) ==
    IF lease_terms.token_address \notin DOMAIN asks THEN "token not accepted"
    ELSE LET ask == asks[lease_terms.token_address]
             d == lease_terms.lease_duration
         IN IF ~(ask.duration_start <= d /\ d < ask.duration_end)
            THEN (IF d < ask.duration_start THEN "duration too short"
                                            ELSE "duration too long")
            ELSE IF ~(ask.size_start <= size /\ size < ask.size_end)
            THEN (IF size < ask.size_start THEN "size too small"
                                           ELSE "size too big")
            ELSE IF TotalTokensTooSmall(ask, lease_terms.price)
            THEN "total tokens too small"
            ELSE IF as_secs(d) = 0 THEN "panic"
            ELSE IF PriceRateTooSmall(lease_terms.price, as_secs(d), size,
                                      ask.min_tokens_gb_hour)
            THEN "price per gb per hour too small"
            ELSE IF PenaltyRateTooHigh(ask, lease_terms.price, lease_terms.penalty)
            THEN "penalty too high"
            ELSE "ok"

\* Service::proposal of this node
proposal(lease_terms, size) == proposal_of(token_ask, lease_terms, size)

(***************************************************************************)
(* Merkle tree (src/src/cryptography.rs).  Bytes are numbers and a blob is *)
(* a sequence of bytes.  Keccak256 is taken to be free of collisions: the  *)
(* hash of a byte string is the string under a tag, and the hash of two    *)
(* concatenated hashes is the pair under the tag.                          *)
(***************************************************************************)
BLOCK_SIZE_BYTES == 544

Min(a, b) == IF a <= b THEN a ELSE b

RECURSIVE BitAnd(_, _)
BitAnd(a, b) ==
    IF a = 0 \/ b = 0 THEN 0
    ELSE ((a % 2) * (b % 2)) + (2 * BitAnd(a \div 2, b \div 2))

\* Keccak256Hasher::hash
hash(data) == <<"h", data>>

\* rs_merkle's Hasher::concat_and_hash: a node without a right sibling is
\* carried up as it is.
concat_and_hash(left, right) == IF right = None THEN left ELSE hash(<<left, right[1]>>)

\* The layer above a layer of nodes.
parent_layer(layer) ==
    [j \in 1..((Len(layer) + 1) \div 2) |->
        concat_and_hash(layer[2 * j - 1],
                        IF 2 * j <= Len(layer) THEN Some(layer[2 * j]) ELSE None)]

\* rs_merkle's root of the leaves inserted: None for no leaves.
RECURSIVE tree_root(_)
tree_root(leaves) ==
    IF Len(leaves) = 0 THEN None
    ELSE IF Len(leaves) = 1 THEN Some(leaves[1])
    ELSE tree_root(parent_layer(leaves))

\* rs_merkle's proof of one leaf: the siblings on the way up, lowest first;
\* a layer where the node has no sibling adds nothing.  index counts from 0.
RECURSIVE tree_proof(_, _)
tree_proof(layer, index) ==
    LET sibling == IF index % 2 = 0 THEN index + 1 ELSE index - 1
        here == IF sibling < Len(layer) THEN <<layer[sibling + 1]>> ELSE <<>>
    IN IF Len(layer) <= 1 THEN here
       ELSE here \o tree_proof(parent_layer(layer), index \div 2)

RECURSIVE ceil_log2(_)
ceil_log2(n) == IF n <= 1 THEN 0 ELSE 1 + ceil_log2((n + 1) \div 2)

\* rs_merkle's depth of a tree of `count` leaves.
tree_depth(count) == IF count = 1 THEN 1 ELSE ceil_log2(count)

\* rs_merkle's MerkleProof::root for one leaf: the root the proof hashes lead
\* to in a tree of `count` leaves and `depth` layers.  On each layer the node
\* takes the next proof hash as its sibling, the lower index on the left,
\* unless it is the last node of a layer with an odd number of nodes.  Hashes
\* left over are not looked at; None is the error for too few hashes.
RECURSIVE proof_root(_, _, _, _, _)
proof_root(index, node, proof_hashes, count, depth) ==
    IF depth = 0 THEN Some(node)
    ELSE LET up == (count + 1) \div 2
             last_of_uneven == count % 2 = 1 /\ index = count - 1
         IN IF last_of_uneven
            THEN proof_root(index \div 2, node, proof_hashes, up, depth - 1)
            ELSE IF proof_hashes = <<>> THEN None
            ELSE proof_root(index \div 2,
                            IF index % 2 = 0
                            THEN concat_and_hash(node, Some(proof_hashes[1]))
                            ELSE concat_and_hash(proof_hashes[1], Some(node)),
                            Tail(proof_hashes), up, depth - 1)

verify_floor(leaf_index, block_data, proof, merkle_root, total_size) ==
    LET total_leaves_count == total_size \div BLOCK_SIZE_BYTES
    IN proof_root(leaf_index, hash(block_data), proof, total_leaves_count,
                  tree_depth(total_leaves_count))
           = Some(merkle_root)

\* Service::verify of cryptography.rs.
verify(leaf_index, block_data, proof, merkle_root, total_size) ==
    LET total_leaves_count ==
            (total_size \div BLOCK_SIZE_BYTES)
                + (IF total_size % BLOCK_SIZE_BYTES = 0 THEN 0 ELSE 1)
    IN proof_root(leaf_index, hash(block_data), proof, total_leaves_count,
                  tree_depth(total_leaves_count))
           = Some(merkle_root)

\* new_merkle_tree
new_merkle_tree == [inner |-> <<>>, digest |-> <<>>, current_bytes |-> 0]

\* The loop of append_data: current_bytes is read and never written.
RECURSIVE append_loop(_, _, _)
append_loop(tree, current, remaining) ==
    IF current = <<>> THEN tree
    ELSE LET at == Min(remaining, Len(current))
             left == SubSeq(current, 1, at)
             right == SubSeq(current, at + 1, Len(current))
             updated == tree.digest \o left
         IN IF tree.current_bytes % BLOCK_SIZE_BYTES = 0
            THEN append_loop([tree EXCEPT !.inner = Append(@, hash(updated)),
                                          !.digest = <<>>],
                             right, remaining)
            ELSE append_loop([tree EXCEPT !.digest = updated], right, remaining)

\* RsMerkleTree::append_data
append_data(tree, data) ==
    append_loop(tree, data,
                BLOCK_SIZE_BYTES - (tree.current_bytes % BLOCK_SIZE_BYTES))

\* The leaves root and proof work on: the digest is finalized into one more
\* leaf when current_bytes & BLOCK_SIZE_BYTES is not 0.
final_leaves(tree) ==
    IF BitAnd(tree.current_bytes, BLOCK_SIZE_BYTES) # 0
    THEN Append(tree.inner, hash(tree.digest))
    ELSE tree.inner

\* RsMerkleTree::root: the expect on a tree without leaves panics.
root(tree) ==
    LET r == tree_root(final_leaves(tree))
    IN IF r = None THEN <<"panic">> ELSE r[1]

\* Whether root panics on the tree.
root_panics(tree) == tree_root(final_leaves(tree)) = None

\* RsMerkleTree::proof
proof(tree, leaf_index) == tree_proof(final_leaves(tree), leaf_index)

(***************************************************************************)
(* Data store (src/src/data.rs).                                           *)
(***************************************************************************)
parameters(data) ==
    [merkle_root |-> root(append_data(new_merkle_tree, data)), size |-> Len(data)]

\* Service::proof of data.rs on the bytes read from the file: the block and
\* its proof, or the error of the ensure!.
data_proof(data, block_number) ==
    LET block_start == block_number * BLOCK_SIZE_BYTES
    IN IF ~(Len(data) >= block_start)
       THEN [ok |-> FALSE, err |-> "block is out of bounds"]
       ELSE LET block_end == Min(block_start + BLOCK_SIZE_BYTES, Len(data))
            IN [ok |-> TRUE,
                block_data |-> SubSeq(data, block_start + 1, block_end),
                proof |-> proof(append_data(new_merkle_tree, data), block_number)]

\* Service::proof of data.rs: tokio::fs::read of the file of (peer_id, nonce)
\* fails when there is none, then the block and the proof as above.
store_proof(folder, peer_id, nonce, block_number) ==
    IF <<peer_id, nonce>> \notin DOMAIN folder
    THEN [ok |-> FALSE, err |-> "Failed to read file while creating proof"]
    ELSE data_proof(folder[<<peer_id, nonce>>], block_number)

data_verify_first(params, block_number, block_data, proof_hashes) ==
    verify(0, block_data, proof_hashes, params.merkle_root, params.size)

\* Service::verify of data.rs
data_verify(params, block_number, block_data, proof_hashes) ==
    verify(block_number, block_data, proof_hashes, params.merkle_root, params.size)

\* tokio::fs::write creates the file or replaces its content.
fs_write(folder, key, data) == (key :> data) @@ folder

(***************************************************************************)
(* State.                                                                  *)
(***************************************************************************)
VARIABLES
    tasks,              \* spawned proposal tasks (lessor side)
    data_folder,        \* data store: (peer_id, nonce) -> bytes
    seal_lease_txs,     \* sealLease transactions submitted, in order
    message_queue,      \* proposal rejections handed to the network
    calls,              \* lease calls of the operator (renter side)
    leases_rent,        \* persistence: (peer_id, nonce) -> Lease
    pending_proposals,  \* one-shot listeners: (peer_id, nonce) -> lease calls
    events,             \* LeaseSealed events delivered by the adjudicator streams
    height,             \* number of the newest block
    handled,            \* chain loop: per handled event, "ok" or "no block"
    receivers,          \* correlator: the futures new_listener returned
    notified,           \* correlator: the calls of notify, with their result
    merkle,             \* Merkle tree: the tree being fed and what was asked of it
    commands,           \* the challenge and retrieve commands of the operator
    policy,             \* lessor policy: the proposal judged and the verdict
    wait,               \* one call of wait_for_seal_lease and the items it took
    directory,          \* behaviour.known_peers: peer id -> IdentifyInfo
    warned,             \* peers whose Identify result was refused for its key
    events_queue,       \* behaviour.events_queue: events not yet polled
    requests,           \* calls of challenge, retrieve and send_proposal
    pending,            \* pending_challenges, pending_retrieves, pending_proposals
    stream,             \* events poll_next returned to process_p2p_events
    routed,             \* responses poll_next notified, with the count
    swarm,              \* "running", or "panicked" once a handler panicked
    chain_loop,         \* process_onchain_events: the outcome of each item taken
    deal,               \* one proposal from the renter's signature to the sealLease
    handler             \* the protobuf handler of one connection

vars == <<tasks, data_folder, seal_lease_txs, message_queue, calls, leases_rent,
          pending_proposals, events, height, handled, receivers, notified,
          merkle, commands, policy, wait, directory, warned, events_queue,
          requests, pending, stream, routed, swarm, chain_loop, deal, handler>>

lessorVars == <<tasks, data_folder, seal_lease_txs, message_queue>>

renterVars == <<calls, pending_proposals>>

chainVars == <<events, height>>

\* The state of the specifications of single services.
\* The state of the specifications of the network and chain services.
p2pVars == <<directory, warned, events_queue, requests, pending, stream, routed,
            swarm>>

wireVars == <<deal, handler>>

serviceVars == <<wait, p2pVars, chain_loop, wireVars>>

libVars == <<receivers, notified, merkle, commands, policy, serviceVars>>

syncVars == <<pending_proposals, receivers, notified>>

\* The state of the node.
nodeVars == <<lessorVars, calls, leases_rent, chainVars, handled>>

Keys == Peers \X Nonces

(***************************************************************************)
(* Inputs.                                                                 *)
(***************************************************************************)
GoodTerms == Terms("t1", 1, 1, 2, 3600000)

CheapTerms == Terms("t1", 0, 1, 2, 3600000)

UndeployedTerms == Terms("t2", 1, 1, 2, 3600000)

Proposal(nonce, terms, data) ==
    [nonce |-> nonce, lease_terms |-> terms, data |-> data]

\* ReceivedLeaseProposal events the peer network can deliver.
ReceivedProposals ==
    { [peer_id |-> "p1", proposal |-> Proposal(1, GoodTerms, <<7>>)],
      [peer_id |-> "p1", proposal |-> Proposal(1, GoodTerms, <<8, 8>>)],
      [peer_id |-> "p1", proposal |-> Proposal(2, CheapTerms, <<7>>)],
      [peer_id |-> "p2", proposal |-> Proposal(1, UndeployedTerms, <<7>>)] }

(***************************************************************************)
(* The peer network (src/src/p2p).  A public key is its kind and a number; *)
(* PeerId::from_public_key is a hash of the encoded key, taken to be free  *)
(* of collisions: the peer id of a key is the key under a tag.             *)
(***************************************************************************)
PROTOCOL_VERSION == "p2pim/0.1.0"

PublicKeys == [kind : {"Secp256k1", "Ed25519"}, n : 1..2]

from_public_key(public_key) == <<"peer", public_key>>

P2pPeers == {from_public_key(public_key) : public_key \in PublicKeys}

IdentifyInfos == [protocol_version : {PROTOCOL_VERSION, "ipfs/0.1.0"},
                  public_key : PublicKeys]

\* The peers that talk to this node: one with a secp256k1 key, one without.
RemotePeers == {from_public_key([kind |-> "Secp256k1", n |-> 1]),
                from_public_key([kind |-> "Ed25519", n |-> 1])}

\* The three correlator tables and their keys.
Tables == {"pending_challenges", "pending_retrieves", "pending_proposals"}

P2pNonces == {1}

P2pChallengeKeys == [nonce : P2pNonces, block_number : {0}]

PendingKeys(table) ==
    IF table = "pending_challenges" THEN RemotePeers \X P2pChallengeKeys
    ELSE RemotePeers \X P2pNonces

(***************************************************************************)
(* Initial state: nothing stored, nothing persisted, an empty chain log.   *)
(***************************************************************************)
Init ==
    /\ tasks = <<>>
    /\ data_folder = <<>>
    /\ seal_lease_txs = <<>>
    /\ message_queue = <<>>
    /\ calls = <<>>
    /\ leases_rent = <<>>
    /\ pending_proposals = [k \in Keys |-> <<>>]
    /\ events = <<>>
    /\ height = 0
    /\ handled = <<>>
    /\ receivers = <<>>
    /\ notified = [seq |-> 0]
    /\ merkle = [pc |-> "none"]
    /\ commands = <<>>
    /\ policy = [pc |-> "none"]
    /\ wait = [pc |-> "none"]
    /\ directory = <<>>
    /\ warned = {}
    /\ events_queue = <<>>
    /\ requests = <<>>
    /\ pending = [table \in Tables |-> [k \in PendingKeys(table) |-> <<>>]]
    /\ stream = <<>>
    /\ routed = <<>>
    /\ swarm = "running"
    /\ chain_loop = [pc |-> "running", log |-> <<>>, last |-> None]
    /\ deal = [pc |-> "none"]
    /\ handler = [pending_messages |-> <<>>, connection |-> "none",
                  requested |-> FALSE, injected |-> <<>>, sent |-> <<>>,
                  closed |-> FALSE]

(***************************************************************************)
(* Lessor side: process_p2p_events and process_proposal_received.          *)
(***************************************************************************)
TaskKey(t) == <<tasks[t].peer_id, tasks[t].proposal.nonce>>

Finish(t, result) == [tasks EXCEPT ![t].pc = "done", ![t].result = result]

\* The peer-event loop takes a ReceivedLeaseProposal and spawns its task.
SpawnTask(ev) ==
    /\ Len(tasks) < MaxTasks
    /\ tasks' = Append(tasks, [peer_id |-> ev.peer_id, proposal |-> ev.proposal,
                               pc |-> "policy", result |-> "none",
                               stored |-> FALSE])
    /\ UNCHANGED <<libVars, data_folder, seal_lease_txs, message_queue, renterVars,
                   leases_rent, chainVars, handled>>

\* TaskPolicy without the early return of the rejected branch.
TaskPolicyNoReturn(t) ==
    /\ tasks[t].pc = "policy"
    /\ LET p == tasks[t].proposal
           verdict == proposal(p.lease_terms, Len(p.data))
       IN IF verdict \notin {"ok", "panic"}
          THEN /\ tasks' = [tasks EXCEPT ![t].pc = "store", ![t].result = "rejected"]
               /\ message_queue' = Append(message_queue,
                      [peer_id |-> tasks[t].peer_id, nonce |-> p.nonce,
                       reason |-> verdict])
          ELSE /\ tasks' = [tasks EXCEPT ![t].pc = "store"]
               /\ UNCHANGED message_queue
    /\ UNCHANGED <<libVars, data_folder, seal_lease_txs, renterVars, leases_rent,
                   chainVars, handled>>

\* Policy check and lessee address; a rejection is sent by the spawned task.
TaskPolicy(t) ==
    /\ tasks[t].pc = "policy"
    /\ LET p == tasks[t].proposal
           verdict == proposal(p.lease_terms, Len(p.data))
       IN IF verdict = "panic"
          THEN /\ tasks' = Finish(t, "panic")
               /\ UNCHANGED message_queue
          ELSE IF verdict # "ok"
          THEN /\ tasks' = Finish(t, "rejected")
               /\ message_queue' = Append(message_queue,
                      [peer_id |-> tasks[t].peer_id, nonce |-> p.nonce,
                       reason |-> verdict])
          ELSE IF find_public_key(tasks[t].peer_id) = None
          THEN /\ tasks' = Finish(t, "panic")
               /\ UNCHANGED message_queue
          ELSE /\ tasks' = [tasks EXCEPT ![t].pc = "store"]
               /\ UNCHANGED message_queue
    /\ UNCHANGED <<libVars, data_folder, seal_lease_txs, renterVars, leases_rent,
                   chainVars, handled>>

\* data.store: write the blob under (peer_id, nonce), or fail on I/O.
TaskStore(t) ==
    /\ tasks[t].pc = "store"
    /\ \/ /\ data_folder' = fs_write(data_folder, TaskKey(t), tasks[t].proposal.data)
          /\ tasks' = [tasks EXCEPT ![t].pc = "seal", ![t].stored = TRUE]
       \/ /\ tasks' = Finish(t, "data error")
          /\ UNCHANGED data_folder
    /\ UNCHANGED <<libVars, seal_lease_txs, message_queue, renterVars, leases_rent,
                   chainVars, handled>>

\* onchain.seal_lease: submit sealLease to the token's adjudicator, or fail
\* (no deployment for the token, or the submission fails).
TaskSeal(t) ==
    /\ tasks[t].pc = "seal"
    /\ LET p == tasks[t].proposal
           lessee_address == into_address(find_public_key(tasks[t].peer_id)[1])
       IN \/ /\ p.lease_terms.token_address \in deployments
             /\ seal_lease_txs' = Append(seal_lease_txs,
                    [token |-> p.lease_terms.token_address,
                     lessee |-> lessee_address, lessor |-> Own,
                     nonce |-> p.nonce,
                     data_parameters |-> parameters(p.data), task |-> t])
             /\ tasks' = Finish(t, "sealed")
          \/ /\ tasks' = Finish(t, "onchain error")
             /\ UNCHANGED seal_lease_txs
    /\ UNCHANGED <<libVars, data_folder, message_queue, renterVars, leases_rent,
                   chainVars, handled>>

(***************************************************************************)
(* Persistence (src/src/persistence.rs): leases_rent keyed by              *)
(* (peer_id, nonce).                                                       *)
(***************************************************************************)
key(lease) == <<lease.peer_id, lease.nonce>>

rent_store(leases, lease) == (key(lease) :> lease) @@ leases

\* rent_get: the lease stored under (peer_id, nonce), if any.
rent_get(leases, peer_id, nonce) ==
    IF <<peer_id, nonce>> \in DOMAIN leases
    THEN Some(leases[<<peer_id, nonce>>])
    ELSE None

\* The keys whose lease has this (peer_address, nonce).
rent_find(leases, peer_address, nonce) ==
    {k \in DOMAIN leases : leases[k].peer_address = peer_address
                           /\ leases[k].nonce = nonce}

\* rent_update_chain, were it to clear a confirmation that is already set
\* when it is given another one.
rent_update_chain_toggle(leases, peer_address, nonce, chain_confirmation) ==
    LET found == rent_find(leases, peer_address, nonce)
    IN IF found = {} THEN leases
       ELSE LET k == CHOOSE x \in found : TRUE
                new == IF leases[k].chain_confirmation # None
                          /\ chain_confirmation # None
                       THEN None ELSE chain_confirmation
            IN (k :> [leases[k] EXCEPT !.chain_confirmation = new]) @@ leases

\* rent_update_chain, were it to write the confirmation to every lease of
\* the nonce once it has found the lease.
rent_update_chain_nonce(leases, peer_address, nonce, chain_confirmation) ==
    LET found == rent_find(leases, peer_address, nonce)
    IN IF found = {} THEN leases
       ELSE [k \in DOMAIN leases |->
                IF leases[k].nonce = nonce
                THEN [leases[k] EXCEPT !.chain_confirmation = chain_confirmation]
                ELSE leases[k]]

\* rent_update_chain, were it to drop the leases when it finds none.
rent_update_chain_purge(leases, peer_address, nonce, chain_confirmation) ==
    LET found == rent_find(leases, peer_address, nonce)
    IN IF found = {} THEN <<>>
       ELSE LET k == CHOOSE x \in found : TRUE
            IN (k :> [leases[k] EXCEPT !.chain_confirmation = chain_confirmation])
               @@ leases

\* Sets or clears the confirmation of the lease found; LeaseNotFound leaves
\* the map as it is.
rent_update_chain(leases, peer_address, nonce, chain_confirmation) ==
    LET found == rent_find(leases, peer_address, nonce)
    IN IF found = {} THEN leases
       ELSE LET k == CHOOSE x \in found : TRUE
            IN (k :> [leases[k] EXCEPT !.chain_confirmation = chain_confirmation])
               @@ leases

(***************************************************************************)
(* The chain.  A LeaseSealed event exists only for a deal both parties     *)
(* signed: a sealLease this node submitted as lessor, or a proposal this   *)
(* node signed and sent as renter.  Block b carries timestamp(b).          *)
(***************************************************************************)
timestamp(block) == 2 * block

Deal(token, lessor, lessee, nonce, tx) ==
    [token |-> token, lessor |-> lessor, lessee |-> lessee, nonce |-> nonce,
     transaction_hash |-> tx]

SentCalls == {l \in DOMAIN calls : calls[l].sent}

SealableDeals ==
    { Deal(seal_lease_txs[i].token, Own, seal_lease_txs[i].lessee,
           seal_lease_txs[i].nonce, <<"tx", Own, i>>) : i \in DOMAIN seal_lease_txs }
    \cup
    { Deal(calls[l].terms.token_address, calls[l].lessor_address, Own,
           calls[l].nonce, <<"tx", calls[l].lessor_address, calls[l].nonce>>) :
        l \in {c \in SentCalls : calls[c].terms.token_address \in deployments} }

SameLease(e, d) ==
    /\ e.token = d.token /\ e.lessor = d.lessor
    /\ e.lessee = d.lessee /\ e.nonce = d.nonce

\* The last event of the log about the lease of deal d, as an Option.
LastEventOf(d) ==
    LET idx == {i \in DOMAIN events : SameLease(events[i], d)}
    IN IF idx = {} THEN None
       ELSE Some(events[CHOOSE i \in idx : \A j \in idx : j <= i])

Event(status, d, block) ==
    [status |-> status, token |-> d.token, lessor |-> d.lessor,
     lessee |-> d.lessee, nonce |-> d.nonce,
     transaction_hash |-> d.transaction_hash, block |-> block]

\* A LeaseSealed(Added) event reaches the streams: the sealLease is mined in a
\* new block, or the same event is delivered once more.
ChainAdded(d) ==
    /\ Len(events) < MaxEvents
    /\ LET last == LastEventOf(d)
       IN IF last # None /\ last[1].status = "Added"
          THEN /\ last[1].transaction_hash = d.transaction_hash
               /\ events' = Append(events, last[1])
               /\ UNCHANGED height
          ELSE /\ height < MaxBlocks
               /\ height' = height + 1
               /\ events' = Append(events, Event("Added", d, height + 1))
    /\ UNCHANGED <<libVars, lessorVars, renterVars, leases_rent, handled>>

\* A reorganisation removes the inclusion: LeaseSealed(Removed).
ChainRemoved(d) ==
    /\ Len(events) < MaxEvents
    /\ LET last == LastEventOf(d)
       IN /\ last # None
          /\ last[1].status = "Added"
          /\ last[1].transaction_hash = d.transaction_hash
          /\ events' = Append(events, [last[1] EXCEPT !.status = "Removed"])
    /\ UNCHANGED <<libVars, lessorVars, renterVars, leases_rent, height, handled>>

NewBlock ==
    /\ height < MaxBlocks
    /\ height' = height + 1
    /\ UNCHANGED <<libVars, lessorVars, renterVars, leases_rent, events, handled>>

(***************************************************************************)
(* Loop B: process_onchain_events / process_onchain_event.                 *)
(***************************************************************************)
ChainConfirmation(tx, time) == [transaction_hash |-> tx, timestamp |-> time]

\* process_onchain_event, were its Removed arm for the own lessee missing.
process_onchain_event_no_removed(leases, ev) ==
    IF ev.status = "Added" /\ ev.lessee = Own
    THEN rent_update_chain(leases, ev.lessor, ev.nonce,
             Some(ChainConfirmation(ev.transaction_hash, timestamp(ev.block))))
    ELSE leases

\* process_onchain_event, were an event of another lessee to update the
\* lease this node rents from that address.
process_onchain_event_lets(leases, ev) ==
    IF ev.lessee = Own
    THEN rent_update_chain(leases, ev.lessor, ev.nonce,
             IF ev.status = "Removed" THEN None
             ELSE Some(ChainConfirmation(ev.transaction_hash, timestamp(ev.block))))
    ELSE rent_update_chain(leases, ev.lessee, ev.nonce,
             IF ev.status = "Removed" THEN None
             ELSE Some(ChainConfirmation(ev.transaction_hash, timestamp(ev.block))))

\* The match of process_onchain_event, after the block was found.
process_onchain_event(leases, ev) ==
    IF ev.status = "Removed" /\ ev.lessee = Own
    THEN rent_update_chain(leases, ev.lessor, ev.nonce, None)
    ELSE IF ev.status = "Removed" /\ ev.lessor = Own THEN leases
    ELSE IF ev.status = "Added" /\ ev.lessee = Own
    THEN rent_update_chain(leases, ev.lessor, ev.nonce,
             Some(ChainConfirmation(ev.transaction_hash, timestamp(ev.block))))
    ELSE leases

\* The loop takes the next event of the stream; onchain.block may fail or
\* find no block, and then the event is dropped with an error log.
ChainLoop ==
    /\ Len(handled) < Len(events)
    /\ LET ev == events[Len(handled) + 1]
       IN \/ /\ handled' = Append(handled, "ok")
             /\ leases_rent' = process_onchain_event(leases_rent, ev)
          \/ /\ handled' = Append(handled, "no block")
             /\ UNCHANGED leases_rent
    /\ UNCHANGED <<libVars, lessorVars, renterVars, chainVars>>

(***************************************************************************)
(* The lessor's specification.                                             *)
(***************************************************************************)
NextLessor ==
    \/ \E ev \in ReceivedProposals : SpawnTask(ev)
    \/ \E t \in DOMAIN tasks : TaskPolicy(t)
    \/ \E t \in DOMAIN tasks : TaskStore(t)
    \/ \E t \in DOMAIN tasks : TaskSeal(t)
    \/ \E d \in SealableDeals : ChainAdded(d)
    \/ \E d \in SealableDeals : ChainRemoved(d)
    \/ NewBlock
    \/ ChainLoop

SpecLessor == Init /\ [][NextLessor]_vars

(***************************************************************************)
(* Properties of the lessor side.                                          *)
(***************************************************************************)
Verdict(t) == proposal(tasks[t].proposal.lease_terms, Len(tasks[t].proposal.data))

SealsOf(t) == {i \in DOMAIN seal_lease_txs : seal_lease_txs[i].task = t}

\* C1 (as claimed): of the tasks handling proposals with one (peer, nonce), at
\* most one gets past the duplicate guard and stores the blob.
C1_LeaseUniqueness ==
    \A k \in Keys :
        Cardinality({t \in DOMAIN tasks : TaskKey(t) = k /\ tasks[t].stored}) <= 1

\* C4: a task whose proposal the policy rejects has sent one rejection carrying
\* the proposal's nonce and the policy's reason to the proposing peer and has
\* stopped: it stored no blob, submitted no sealLease, persisted nothing.
C4_PolicyRejectStops ==
    \A t \in DOMAIN tasks :
        (Verdict(t) \notin {"ok", "panic"} /\ tasks[t].pc # "policy") =>
            /\ tasks[t].pc = "done"
            /\ tasks[t].result = "rejected"
            /\ ~tasks[t].stored
            /\ SealsOf(t) = {}
            /\ TaskKey(t) \notin DOMAIN leases_rent
            /\ \E i \in DOMAIN message_queue :
                   message_queue[i] = [peer_id |-> tasks[t].peer_id,
                                       nonce |-> tasks[t].proposal.nonce,
                                       reason |-> Verdict(t)]

\* C4 witness: a rejected proposal was handled while another task stored.
C4_Witness ==
    \E t, u \in DOMAIN tasks :
        /\ tasks[t].result = "rejected"
        /\ Verdict(t) = "total tokens too small"
        /\ tasks[u].stored

\* C5 (as claimed): the store of a proposal whose (peer, nonce) is already
\* stored fails and leaves the stored blob as it is.
C5_DuplicateRejected ==
    [][\A t \in DOMAIN tasks :
          (tasks[t].pc = "store" /\ tasks'[t].pc # "store"
           /\ TaskKey(t) \in DOMAIN data_folder) =>
              (tasks'[t].pc = "done" /\ data_folder' = data_folder)]_vars

\* C6 (as claimed): after a failed seal_lease no blob is left for the task's
\* (peer, nonce), when no other task handled the same (peer, nonce).
C6_RollbackOnSealFailure ==
    \A t \in DOMAIN tasks :
        (tasks[t].result = "onchain error"
         /\ \A u \in DOMAIN tasks : u # t => TaskKey(u) # TaskKey(t)) =>
            TaskKey(t) \notin DOMAIN data_folder

\* The events handled with their block found, about the lease of event e.
HandledOf(e) ==
    {i \in DOMAIN handled : handled[i] = "ok" /\ SameLease(events[i], e)}

IsLastHandled(i) == \A j \in HandledOf(events[i]) : j <= i

\* C8 (as claimed): once the chain loop has handled the Added event of the
\* sealLease a task submitted, the lessor holds a persisted lease for the
\* task's (peer, nonce) with a chain confirmation.
C8_LessorLeaseConfirmed ==
    \A t \in DOMAIN tasks : \A i \in DOMAIN handled :
        (/\ tasks[t].result = "sealed"
         /\ handled[i] = "ok" /\ IsLastHandled(i)
         /\ events[i].status = "Added" /\ events[i].lessor = Own
         /\ \E s \in SealsOf(t) : events[i].transaction_hash = <<"tx", Own, s>>) =>
            /\ TaskKey(t) \in DOMAIN leases_rent
            /\ leases_rent[TaskKey(t)].chain_confirmation # None

\* lease(peer_id, terms, data) commands of the operator, with the nonce drawn.
LeaseInputs ==
    { [peer_id |-> "p1", nonce |-> 1, terms |-> GoodTerms, data |-> <<7>>],
      [peer_id |-> "p1", nonce |-> 2, terms |-> GoodTerms, data |-> <<7>>],
      [peer_id |-> "p2", nonce |-> 1, terms |-> UndeployedTerms, data |-> <<7>>],
      [peer_id |-> "p3", nonce |-> 1, terms |-> GoodTerms, data |-> <<7>>] }

Reasons == {"total tokens too small"}

(***************************************************************************)
(* Renter side: Service::lease, with onchain.wait_for_seal_lease and       *)
(* p2p.send_proposal as the two branches of its select!.                   *)
(*                                                                         *)
(* A call is polled as one task.  The seal branch becomes ready only after *)
(* the unsubscribe that follows its loop, which is an await of its own: a  *)
(* poll in which the rejection is already there returns the rejection, so  *)
(* the steps of the wait are taken while no rejection was received, and a  *)
(* rejection received during the unsubscribe races with its completion.    *)
(***************************************************************************)
CallKey(l) == <<calls[l].peer_id, calls[l].nonce>>

Return(l, result, tx) ==
    [calls EXCEPT ![l].pc = "done", ![l].result = result, ![l].tx = tx]

\* LeaseCall, were the lease not persisted before the proposal is sent.
LeaseCallNoStore(in) ==
    /\ Len(calls) < MaxLeases
    /\ LET pk == find_public_key(in.peer_id)
           call == [peer_id |-> in.peer_id, nonce |-> in.nonce, terms |-> in.terms,
                    lessor_address |-> IF pk = None THEN "" ELSE into_address(pk[1]),
                    pc |-> IF pk = None THEN "done" ELSE "send",
                    sent |-> FALSE, r |-> "none", match |-> 0, from_block |-> 0,
                    hsub |-> 0, head |-> 0,
                    rej |-> None, rej_seen |-> "no", stored_at |-> Len(handled),
                    result |-> IF pk = None THEN "peer id not found" ELSE "none",
                    tx |-> None]
       IN calls' = Append(calls, call)
    /\ UNCHANGED <<libVars, lessorVars, leases_rent, pending_proposals, chainVars,
                   handled>>

\* lease up to rent_store: nonce, lessor address (or "peer id not found"),
\* signature, and the Lease persisted with chain_confirmation = None.
\* stored_at records how many events the chain loop had taken by then.
LeaseStore(in) ==
    /\ LET pk == find_public_key(in.peer_id)
           call == [peer_id |-> in.peer_id, nonce |-> in.nonce, terms |-> in.terms,
                    lessor_address |-> IF pk = None THEN "" ELSE into_address(pk[1]),
                    pc |-> IF pk = None THEN "done" ELSE "send",
                    sent |-> FALSE, r |-> "none", match |-> 0, from_block |-> 0,
                    hsub |-> 0, head |-> 0,
                    rej |-> None, rej_seen |-> "no", stored_at |-> Len(handled),
                    result |-> IF pk = None THEN "peer id not found" ELSE "none",
                    tx |-> None]
       IN /\ calls' = Append(calls, call)
          /\ IF pk = None
             THEN UNCHANGED leases_rent
             ELSE leases_rent' = rent_store(leases_rent,
                      [peer_id |-> in.peer_id, peer_address |-> call.lessor_address,
                       nonce |-> in.nonce, terms |-> in.terms,
                       data_parameters |-> parameters(in.data),
                       chain_confirmation |-> None])
    /\ UNCHANGED <<libVars, lessorVars, pending_proposals, chainVars, handled>>

LeaseCall(in) ==
    /\ Len(calls) < MaxLeases
    /\ LeaseStore(in)

\* from_block of the event stream: last_block - 10, or 0.
from_block(last_block) == IF last_block >= 10 THEN last_block - 10 ELSE 0

\* First poll of the select!: send_proposal registers its listener and queues
\* the proposal; wait_for_seal_lease looks up the adjudicator, reads the
\* block number and subscribes to the new heads.  A missing adjudicator ends
\* the wait before its first await, whether or not the other branch was
\* polled before it; a failing block_number or subscribe_new_heads ends it
\* after the proposal was queued.
LeaseSend(l) ==
    /\ calls[l].pc = "send"
    /\ IF calls[l].terms.token_address \in deployments
       THEN /\ \/ calls' = [calls EXCEPT ![l].pc = "loop", ![l].sent = TRUE,
                                          ![l].from_block = from_block(height),
                                          ![l].hsub = height]
               \/ calls' = [Return(l, "transport error", None) EXCEPT
                               ![l].sent = TRUE]
            /\ pending_proposals' =
                   [pending_proposals EXCEPT ![CallKey(l)] = Append(@, l)]
       ELSE \/ /\ calls' = [Return(l, "adjudicator not found", None) EXCEPT
                               ![l].sent = TRUE]
               /\ pending_proposals' =
                      [pending_proposals EXCEPT ![CallKey(l)] = Append(@, l)]
            \/ /\ calls' = Return(l, "adjudicator not found", None)
               /\ UNCHANGED pending_proposals
    /\ UNCHANGED <<libVars, lessorVars, leases_rent, chainVars, handled>>

\* The events of the wait's stream: the token's adjudicator, lessor and
\* lessee topics, from from_block on.
InStream(l, i) ==
    /\ events[i].token = calls[l].terms.token_address
    /\ events[i].lessor = calls[l].lessor_address
    /\ events[i].lessee = Own
    /\ events[i].block >= calls[l].from_block

\* The loop takes the events of its stream in order and continues past the
\* ones of another nonce: it ends with the first event of its nonce.
WaitEvent(l) ==
    /\ calls[l].pc = "loop"
    /\ calls[l].rej = None
    /\ LET matching == {i \in DOMAIN events :
                           InStream(l, i) /\ events[i].nonce = calls[l].nonce}
       IN /\ matching # {}
          /\ LET i == CHOOSE x \in matching : \A y \in matching : x <= y
             IN calls' = [calls EXCEPT ![l].match = i, ![l].r = "event",
                                        ![l].pc = "unsub", ![l].hsub = 0]
    /\ UNCHANGED <<libVars, lessorVars, leases_rent, pending_proposals,
                   chainVars, handled>>

\* WaitHead, were the deadline test `timestamp >= until`.
WaitHeadInclusive(l) ==
    /\ calls[l].pc = "loop"
    /\ calls[l].rej = None
    /\ LET late == {b \in (calls[l].hsub + 1)..height :
                       timestamp(b) >= calls[l].terms.proposal_expiration}
       IN /\ late # {}
          /\ LET b == CHOOSE x \in late : \A y \in late : x <= y
             IN calls' = [calls EXCEPT ![l].head = b, ![l].r = "timeout",
                                        ![l].pc = "unsub", ![l].hsub = 0]
    /\ UNCHANGED <<libVars, lessorVars, leases_rent, pending_proposals,
                   chainVars, handled>>

\* The loop takes the heads that follow its subscription in order and
\* continues past the ones at or before `until`: it ends with the first head
\* whose timestamp is past `until`.
WaitHead(l) ==
    /\ calls[l].pc = "loop"
    /\ calls[l].rej = None
    /\ LET late == {b \in (calls[l].hsub + 1)..height :
                       timestamp(b) > calls[l].terms.proposal_expiration}
       IN /\ late # {}
          /\ LET b == CHOOSE x \in late : \A y \in late : x <= y
             IN calls' = [calls EXCEPT ![l].head = b, ![l].r = "timeout",
                                        ![l].pc = "unsub", ![l].hsub = 0]
    /\ UNCHANGED <<libVars, lessorVars, leases_rent, pending_proposals,
                   chainVars, handled>>

\* One of the two streams ends: the loop ends with an error.
WaitClosed(l) ==
    /\ calls[l].pc = "loop"
    /\ calls[l].rej = None
    /\ calls' = [calls EXCEPT ![l].r = "closed", ![l].pc = "unsub", ![l].hsub = 0]
    /\ UNCHANGED <<libVars, lessorVars, leases_rent, pending_proposals,
                   chainVars, handled>>

\* LeaseReturnSeal, were the event's transaction hash not handed back.
LeaseReturnSealNoTx(l) ==
    /\ calls[l].pc = "unsub"
    /\ calls' =
          IF calls[l].r = "timeout" THEN Return(l, "lease timed out", None)
          ELSE IF calls[l].r = "closed" THEN Return(l, "stream closed", None)
          ELSE Return(l, "ok", None)
    /\ UNCHANGED <<libVars, lessorVars, leases_rent, pending_proposals,
                   chainVars, handled>>

\* The unsubscribe completed and the seal branch wins the select!.
LeaseReturnSeal(l) ==
    /\ calls[l].pc = "unsub"
    /\ calls' =
          IF calls[l].r = "timeout" THEN Return(l, "lease timed out", None)
          ELSE IF calls[l].r = "closed" THEN Return(l, "stream closed", None)
          ELSE IF events[calls[l].match].status = "Removed"
          THEN Return(l, "panic", None)
          ELSE Return(l, "ok", Some(events[calls[l].match].transaction_hash))
    /\ UNCHANGED <<libVars, lessorVars, leases_rent, pending_proposals,
                   chainVars, handled>>

\* LeaseReturnRejected, were the failure to remove the lease it persisted.
LeaseReturnRejectedPurge(l) ==
    /\ calls[l].pc \in {"loop", "unsub"}
    /\ calls[l].rej # None
    /\ calls' = [Return(l, "rejected", None) EXCEPT ![l].hsub = 0, ![l].head = 0]
    /\ leases_rent' = [k \in DOMAIN leases_rent \ {CallKey(l)} |-> leases_rent[k]]
    /\ UNCHANGED <<libVars, lessorVars, pending_proposals, chainVars, handled>>

\* The rejection branch wins the select!.
LeaseReturnRejected(l) ==
    /\ calls[l].pc \in {"loop", "unsub"}
    /\ calls[l].rej # None
    /\ calls' = [Return(l, "rejected", None) EXCEPT ![l].hsub = 0, ![l].head = 0]
    /\ UNCHANGED <<libVars, lessorVars, leases_rent, pending_proposals,
                   chainVars, handled>>

\* OneshotListerners::notify: every sender of the key is removed and sent the
\* value; a sender whose receiver was dropped delivers nothing.
notify(listeners, k) == [listeners EXCEPT ![k] = <<>>]

\* A LeaseRejection of a peer reaches poll_next, which notifies the listeners.
RecvRejection(k, reason) ==
    /\ pending_proposals[k] # <<>>
    /\ pending_proposals' = notify(pending_proposals, k)
    /\ calls' = [l \in DOMAIN calls |->
                    IF (\E i \in DOMAIN pending_proposals[k] :
                           pending_proposals[k][i] = l) /\ calls[l].pc # "done"
                    THEN [calls[l] EXCEPT
                            !.rej = Some(reason),
                            !.rej_seen = IF calls[l].r = "none" THEN "early" ELSE "late"]
                    ELSE calls[l]]
    /\ UNCHANGED <<libVars, lessorVars, leases_rent, chainVars, handled>>

(***************************************************************************)
(* The renter's specifications.  The chain loop writes persistence and     *)
(* reads nothing of a lease call, and a rejection writes nothing the chain *)
(* loop reads: SpecLease is the lease calls without the chain loop,        *)
(* SpecChain the chain loop without the rejections, Spec all of it.        *)
(***************************************************************************)
NextLease ==
    \/ \E in \in LeaseInputs : LeaseCall(in)
    \/ \E l \in DOMAIN calls : LeaseSend(l)
    \/ \E l \in DOMAIN calls : WaitEvent(l)
    \/ \E l \in DOMAIN calls : WaitHead(l)
    \/ \E l \in DOMAIN calls : WaitClosed(l)
    \/ \E l \in DOMAIN calls : LeaseReturnSeal(l)
    \/ \E l \in DOMAIN calls : LeaseReturnRejected(l)
    \/ \E k \in Keys, reason \in Reasons : RecvRejection(k, reason)
    \/ \E d \in SealableDeals : ChainAdded(d)
    \/ \E d \in SealableDeals : ChainRemoved(d)
    \/ NewBlock

SpecLease == Init /\ [][NextLease]_vars

NextChain ==
    \/ \E in \in LeaseInputs : LeaseCall(in)
    \/ \E l \in DOMAIN calls : LeaseSend(l)
    \/ \E l \in DOMAIN calls : WaitEvent(l)
    \/ \E l \in DOMAIN calls : WaitHead(l)
    \/ \E l \in DOMAIN calls : WaitClosed(l)
    \/ \E l \in DOMAIN calls : LeaseReturnSeal(l)
    \/ \E d \in SealableDeals : ChainAdded(d)
    \/ \E d \in SealableDeals : ChainRemoved(d)
    \/ NewBlock
    \/ ChainLoop

SpecChain == Init /\ [][NextChain]_vars

Next ==
    \/ \E in \in LeaseInputs : LeaseCall(in)
    \/ \E l \in DOMAIN calls : LeaseSend(l)
    \/ \E l \in DOMAIN calls : WaitEvent(l)
    \/ \E l \in DOMAIN calls : WaitHead(l)
    \/ \E l \in DOMAIN calls : WaitClosed(l)
    \/ \E l \in DOMAIN calls : LeaseReturnSeal(l)
    \/ \E l \in DOMAIN calls : LeaseReturnRejected(l)
    \/ \E k \in Keys, reason \in Reasons : RecvRejection(k, reason)
    \/ \E d \in SealableDeals : ChainAdded(d)
    \/ \E d \in SealableDeals : ChainRemoved(d)
    \/ NewBlock
    \/ ChainLoop

Spec == Init /\ [][Next]_vars

(***************************************************************************)
(* Properties of the renter side.                                          *)
(***************************************************************************)
Until(l) == calls[l].terms.proposal_expiration

\* The lease went as far as its select!.
Waited(l) == calls[l].pc = "done" /\ calls[l].result # "peer id not found"

\* C2 (as claimed): a lease that went as far as its wait returns
\* `lease timed out` if and only if it observed no matching LeaseSealed
\* event and received no rejection.
C2_TimeoutIff ==
    \A l \in DOMAIN calls :
        Waited(l) =>
            (calls[l].result = "lease timed out"
                <=> (calls[l].match = 0 /\ calls[l].rej = None))

\* C2 (amended): `lease timed out` is returned only after a head with a
\* timestamp past proposal_expiration was taken before any matching event
\* and before any rejection; and it is returned whenever such a head was
\* taken first and no rejection was received before lease returned.
C2_Timeout ==
    \A l \in DOMAIN calls :
        calls[l].pc = "done" =>
            /\ calls[l].result = "lease timed out" =>
                  /\ calls[l].head # 0
                  /\ timestamp(calls[l].head) > Until(l)
                  /\ calls[l].match = 0
                  /\ calls[l].rej_seen # "early"
            /\ (calls[l].r = "timeout" /\ calls[l].rej = None) =>
                  calls[l].result = "lease timed out"

C2_Witness ==
    \E l \in DOMAIN calls :
        /\ calls[l].pc = "done"
        /\ calls[l].result = "lease timed out"
        /\ timestamp(calls[l].head) > Until(l)

TakenFor(k) ==
    {i \in DOMAIN handled :
        /\ events[i].lessee = Own
        /\ events[i].lessor = leases_rent[k].peer_address
        /\ events[i].nonce = leases_rent[k].nonce}

\* The ones among them whose block was found.
AppliedFor(k) == {i \in TakenFor(k) : handled[i] = "ok"}

Last(S) == CHOOSE x \in S : \A y \in S : y <= x

\* The confirmation that follows from the events S.
ConfirmationOf(S) ==
    IF S = {} \/ events[Last(S)].status = "Removed"
    THEN None
    ELSE Some(ChainConfirmation(events[Last(S)].transaction_hash,
                                timestamp(events[Last(S)].block)))

\* The lease commands that stored a lease under key k, in the order of their
\* rent_store.
StoredBy(k) ==
    {l \in DOMAIN calls : CallKey(l) = k /\ find_public_key(calls[l].peer_id) # None}

\* The events applied for the lease of key k since its entry was written.
AppliedSinceStore(k) ==
    {i \in AppliedFor(k) : i > calls[Last(StoredBy(k))].stored_at}

Failed(result) == result \in {"lease timed out", "rejected"}

\* A step in which lease call l returns with a time-out or a rejection.
Fails(l) ==
    /\ calls[l].pc # "done"
    /\ calls'[l].pc = "done"
    /\ Failed(calls'[l].result)

\* A step in which the chain loop applies an Added event of call l's lease.
AppliesAddedFor(l) ==
    /\ Len(handled') = Len(handled) + 1
    /\ handled'[Len(handled')] = "ok"
    /\ LET ev == events[Len(handled')]
       IN /\ ev.status = "Added"
          /\ ev.lessee = Own
          /\ ev.lessor = calls[l].lessor_address
          /\ ev.nonce = calls[l].nonce

\* C9 (as claimed): when lease fails with a time-out or a rejection, the
\* lease it persisted is present afterwards with chain_confirmation = none.
C9_FailedLeaseUnconfirmed ==
    [][\A l \in DOMAIN calls :
          Fails(l) =>
              /\ CallKey(l) \in DOMAIN leases_rent'
              /\ leases_rent'[CallKey(l)].chain_confirmation = None]_vars

\* C9 (amended): when lease fails with a time-out or a rejection, the failure
\* leaves persistence as it was, the lease still in it with the confirmation
\* the chain loop gave it so far; and an Added event the chain loop applies
\* later for that lease sets its confirmation.
C9_FailureRemovesNothing ==
    [][\A l \in DOMAIN calls :
          /\ Fails(l) =>
                /\ CallKey(l) \in DOMAIN leases_rent
                /\ leases_rent' = leases_rent
          /\ (calls[l].pc = "done" /\ Failed(calls[l].result)
              /\ AppliesAddedFor(l)) =>
                /\ CallKey(l) \in DOMAIN leases_rent'
                /\ leases_rent'[CallKey(l)].chain_confirmation =
                       Some(ChainConfirmation(
                               events[Len(handled')].transaction_hash,
                               timestamp(events[Len(handled')].block)))]_vars

\* A failed lease whose persisted lease an Added event confirmed.
C9_Witness ==
    \E l \in DOMAIN calls :
        /\ calls[l].pc = "done"
        /\ Failed(calls[l].result)
        /\ CallKey(l) \in DOMAIN leases_rent
        /\ leases_rent[CallKey(l)].chain_confirmation # None

\* C10: applying an Added event to persistence twice leaves persistence as
\* applying it once does.
C10_AddedIdempotent ==
    \A i \in DOMAIN events :
        events[i].status = "Added" =>
            LET once == process_onchain_event(leases_rent, events[i])
            IN process_onchain_event(once, events[i]) = once

\* The chain loop applied the same Added event twice to a lease it confirms.
C10_Witness ==
    \E i, j \in DOMAIN handled :
        /\ i < j
        /\ events[i] = events[j]
        /\ events[i].status = "Added"
        /\ handled[i] = "ok" /\ handled[j] = "ok"
        /\ \E k \in DOMAIN leases_rent :
               /\ i \in AppliedFor(k)
               /\ leases_rent[k].chain_confirmation # None

\* The lease of call l is in persistence.
Persisted(l) ==
    rent_find(leases_rent, calls[l].lessor_address, calls[l].nonce) # {}

\* A step in which the proposal of call l is queued or its wait starts.
Starts(l) ==
    /\ l \in DOMAIN calls
    /\ calls[l].pc = "send"
    /\ calls'[l] # calls[l]

\* A step in which the chain loop takes a LeaseSealed event of a proposal
\* this node sent.
TakesOwnRent ==
    /\ Len(handled') = Len(handled) + 1
    /\ events[Len(handled')].lessee = Own

\* The steps of C33: a new call has its lease persisted unconfirmed and
\* nothing sent; a call that starts to send or to wait has it persisted; the
\* chain loop finds the lease of an event of an own proposal.
StoredBeforeSentStep ==
    /\ \A l \in DOMAIN calls' :
           (l \notin DOMAIN calls /\ calls'[l].pc = "send") =>
               /\ <<calls'[l].peer_id, calls'[l].nonce>> \in DOMAIN leases_rent'
               /\ leases_rent'[<<calls'[l].peer_id, calls'[l].nonce>>]
                      .chain_confirmation = None
               /\ ~calls'[l].sent
    /\ \A l \in DOMAIN calls : Starts(l) => Persisted(l)
    /\ TakesOwnRent =>
           rent_find(leases_rent, events[Len(handled')].lessor,
                     events[Len(handled')].nonce) # {}

\* C33: lease persists the Lease, with chain_confirmation = none, before the
\* proposal is sent and before the wait for the chain event starts, so that
\* the chain loop finds the lease for every LeaseSealed event of a proposal
\* this node sent.
C33_StoredBeforeSent ==
    /\ [](\A l \in DOMAIN calls :
             (calls[l].sent \/ calls[l].pc \in {"loop", "unsub"}) => Persisted(l))
    /\ [][StoredBeforeSentStep]_vars

\* The chain loop applied the Added event of a proposal that was sent, and
\* the lease persisted before the send carries its confirmation.
C33_Witness ==
    \E l \in DOMAIN calls, i \in DOMAIN handled :
        /\ calls[l].sent
        /\ handled[i] = "ok"
        /\ events[i].status = "Added"
        /\ events[i].lessee = Own
        /\ events[i].lessor = calls[l].lessor_address
        /\ events[i].nonce = calls[l].nonce
        /\ leases_rent[CallKey(l)].chain_confirmation =
               Some(ChainConfirmation(events[i].transaction_hash,
                                      timestamp(events[i].block)))

\* C26: when lease completes, the branch of its select! that lost leaves
\* nothing behind.  After the chain branch won, by an event or by the
\* time-out, no listener of the call remains under (peer, nonce) in
\* pending_proposals, so that notify returns 0 for a later rejection; after
\* the rejection branch won, no subscription of the call to the heads stays
\* open.
C26_LoserLeavesNothing ==
    \A l \in DOMAIN calls :
        calls[l].pc = "done" =>
            /\ calls[l].result \in {"ok", "lease timed out"} =>
                   /\ \A i \in DOMAIN pending_proposals[CallKey(l)] :
                          pending_proposals[CallKey(l)][i] # l
                   /\ Len(pending_proposals[CallKey(l)]) = 0
            /\ calls[l].result = "rejected" => calls[l].hsub = 0

(***************************************************************************)
(* wait_for_seal_lease on its own (src/src/onchain.rs).  The event stream  *)
(* is the adjudicator's LeaseSealed events of this lessor and this lessee, *)
(* whatever their nonce; both streams also carry error items and can end.  *)
(* wait.log is the items the loop took, in the order it took them.         *)
(***************************************************************************)
MaxItems == 3

WaitTokens == {"t1", "t2"}

Untils == {2, 4}

HeadTimestamps == {timestamp(b) : b \in 1..3}

SealedEvents == [nonce : Nonces, status : {"Added", "Removed"}, meta : BOOLEAN]

LastItem(log) == log[Len(log)]

\* The events stream is set up, block_number is read and the heads are
\* subscribed to; each of the three can fail before the loop.  new_heads is
\* the subscription at the node: "subscribed" from subscribe_new_heads on,
\* "unsubscribed" once the node has answered true to eth_unsubscribe.
WaitForSealLease(token_address, nonce, until) ==
    /\ wait.pc = "none"
    /\ \/ /\ token_address \notin deployments
          /\ wait' = [pc |-> "done", nonce |-> nonce, until |-> until, log |-> <<>>,
                      new_heads |-> "none",
                      result |-> [ok |-> FALSE, err |-> "adjudicator not found"]]
       \/ /\ token_address \in deployments
          /\ \/ wait' = [pc |-> "done", nonce |-> nonce, until |-> until,
                         log |-> <<>>, new_heads |-> "none",
                         result |-> [ok |-> FALSE, err |-> "transport error"]]
             \/ wait' = [pc |-> "loop", nonce |-> nonce, until |-> until,
                         log |-> <<>>, new_heads |-> "subscribed",
                         result |-> None]
    /\ UNCHANGED <<nodeVars, syncVars, merkle, commands, policy, p2pVars, chain_loop,
                   wireVars>>

\* EventItem, were the nonce of the event not compared.
EventItemAnyNonce(e) ==
    /\ wait.pc = "loop"
    /\ Len(wait.log) < MaxItems
    /\ wait' = [wait EXCEPT
                   !.log = Append(@, [src |-> "event", item |-> "ok", event |-> e]),
                   !.pc = "unsub",
                   !.result = [ok |-> TRUE, event |-> Some(e)]]
    /\ UNCHANGED <<nodeVars, syncVars, merkle, commands, policy, p2pVars, chain_loop,
                   wireVars>>

\* Some(Ok(e)) of the event stream: the loop ends with the event when its
\* nonce is the requested one and goes on otherwise.
EventItem(e) ==
    /\ wait.pc = "loop"
    /\ Len(wait.log) < MaxItems
    /\ wait' = [wait EXCEPT
                   !.log = Append(@, [src |-> "event", item |-> "ok", event |-> e]),
                   !.pc = IF e.nonce = wait.nonce THEN "unsub" ELSE @,
                   !.result = IF e.nonce = wait.nonce
                              THEN [ok |-> TRUE, event |-> Some(e)] ELSE @]
    /\ UNCHANGED <<nodeVars, syncVars, merkle, commands, policy, p2pVars, chain_loop,
                   wireVars>>

\* Some(Ok(h)) of the heads: the loop ends with None when the timestamp of
\* the head is past until and goes on otherwise.  Timestamps do not decrease.
HeadItem(ts) ==
    /\ wait.pc = "loop"
    /\ Len(wait.log) < MaxItems
    /\ \A i \in DOMAIN wait.log :
           (wait.log[i].src = "head" /\ wait.log[i].item = "ok") =>
               wait.log[i].timestamp <= ts
    /\ wait' = [wait EXCEPT
                   !.log = Append(@, [src |-> "head", item |-> "ok", timestamp |-> ts]),
                   !.pc = IF ts > wait.until THEN "unsub" ELSE @,
                   !.result = IF ts > wait.until
                              THEN [ok |-> TRUE, event |-> None] ELSE @]
    /\ UNCHANGED <<nodeVars, syncVars, merkle, commands, policy, p2pVars, chain_loop,
                   wireVars>>

\* Some(Err(e)) of either stream: a warning, and the loop goes on.
ErrorItem(src) ==
    /\ wait.pc = "loop"
    /\ Len(wait.log) < MaxItems
    /\ wait' = [wait EXCEPT !.log = Append(@, [src |-> src, item |-> "err"])]
    /\ UNCHANGED <<nodeVars, syncVars, merkle, commands, policy, p2pVars, chain_loop,
                   wireVars>>

\* None of either stream: the loop ends with an error.
StreamClosed(src) ==
    /\ wait.pc = "loop"
    /\ Len(wait.log) < MaxItems
    /\ wait' = [wait EXCEPT
                   !.log = Append(@, [src |-> src, item |-> "closed"]),
                   !.pc = "unsub",
                   !.result = [ok |-> FALSE,
                               err |-> IF src = "event"
                                       THEN "event stream closed unexpected"
                                       ELSE "head stream closed unexpected"]]
    /\ UNCHANGED <<nodeVars, syncVars, merkle, commands, policy, p2pVars, chain_loop,
                   wireVars>>

\* unsubscribe() is awaited, whatever the outcome of the loop; its answer
\* (Ok(true), Ok(false) or Err) is logged and the result of the loop is
\* returned.
Unsubscribe(answer) ==
    /\ wait.pc = "unsub"
    /\ wait' = [wait EXCEPT !.pc = "done",
                            !.new_heads = IF answer = "true"
                                          THEN "unsubscribed" ELSE @]
    /\ UNCHANGED <<nodeVars, syncVars, merkle, commands, policy, p2pVars, chain_loop,
                   wireVars>>

\* The future is dropped by its caller (the select! of lease, once the
\* rejection branch is ready) in the loop or while unsubscribe() is awaited.
\* The stream of the heads is dropped with it: its channel in the transport
\* goes, and no eth_unsubscribe is awaited.
WaitDropped ==
    /\ wait.pc \in {"loop", "unsub"}
    /\ wait' = [wait EXCEPT !.pc = "dropped"]
    /\ UNCHANGED <<nodeVars, syncVars, merkle, commands, policy, p2pVars, chain_loop,
                   wireVars>>

\* The arm of the select! of lease for the result of wait_for_seal_lease.
lease_result(e) ==
    IF ~e.ok THEN [kind |-> "err", err |-> e.err]
    ELSE IF e.event = None THEN [kind |-> "err", err |-> "lease timed out"]
    ELSE IF e.event[1].status = "Removed" THEN [kind |-> "panic", at |-> "todo!()"]
    ELSE IF ~e.event[1].meta THEN [kind |-> "panic", at |-> "expect"]
    ELSE [kind |-> "ok", transaction_hash |-> <<"tx", e.event[1].nonce>>]

\* lease takes the result of the wait and returns.
LeaseSealArm ==
    /\ wait.pc = "done"
    /\ wait' = ("lease" :> lease_result(wait.result))
                    @@ [wait EXCEPT !.pc = "returned"]
    /\ UNCHANGED <<nodeVars, syncVars, merkle, commands, policy, p2pVars, chain_loop,
                   wireVars>>

NextWait ==
    \/ \E token_address \in WaitTokens, nonce \in Nonces, until \in Untils :
           WaitForSealLease(token_address, nonce, until)
    \/ \E e \in SealedEvents : EventItem(e)
    \/ \E ts \in HeadTimestamps : HeadItem(ts)
    \/ \E src \in {"event", "head"} : ErrorItem(src)
    \/ \E src \in {"event", "head"} : StreamClosed(src)
    \/ \E answer \in {"true", "false", "error"} : Unsubscribe(answer)
    \/ WaitDropped
    \/ LeaseSealArm

SpecWait == Init /\ [][NextWait]_vars

\* The call returned Ok(Some(e)) / Ok(None).
ReturnedSome == wait.pc = "done" /\ wait.result.ok /\ wait.result.event # None

ReturnedNone == wait.pc = "done" /\ wait.result.ok /\ wait.result.event = None

\* C24: wait_for_seal_lease returns Some(event) only for a LeaseSealed event
\* whose nonce is the requested nonce, the events of another nonce being
\* skipped while the wait goes on, and returns None only after a new head
\* whose timestamp is strictly past until.
C24_WaitForSealLease ==
    /\ ReturnedSome =>
           /\ LastItem(wait.log) = [src |-> "event", item |-> "ok",
                                event |-> wait.result.event[1]]
           /\ wait.result.event[1].nonce = wait.nonce
    /\ ReturnedNone =>
           /\ LastItem(wait.log).src = "head"
           /\ LastItem(wait.log).item = "ok"
           /\ LastItem(wait.log).timestamp > wait.until
    /\ wait.pc # "none" =>
           \A i \in DOMAIN wait.log :
               (/\ wait.log[i].src = "event"
                /\ wait.log[i].item = "ok"
                /\ wait.log[i].event.nonce # wait.nonce) =>
                   (i < Len(wait.log) \/ wait.pc \in {"loop", "dropped"})

\* The call returned the event of its nonce after it took an event of
\* another nonce and a head at until.
C24_Witness ==
    /\ ReturnedSome
    /\ \E i, j \in DOMAIN wait.log :
           /\ wait.log[i].src = "event" /\ wait.log[i].item = "ok"
           /\ wait.log[i].event.nonce # wait.nonce
           /\ wait.log[j].src = "head" /\ wait.log[j].item = "ok"
           /\ wait.log[j].timestamp = wait.until

\* C32: however wait_for_seal_lease ends (a matching event, the deadline, a
\* closed stream, or its future dropped when the rejection wins the race in
\* lease), the subscription to the new heads it opened is released.
C32_SubscriptionReleased ==
    wait.pc \in {"done", "dropped"} => wait.new_heads # "subscribed"

\* C40: lease never panics.  Whatever the peer and the chain events are, a
\* matching LeaseSealed event reported as Removed included, a lease call
\* that ends returns Ok(transaction hash) or an Err value.
C40_LeaseNeverPanics ==
    wait.pc = "returned" => wait.lease.kind \in {"ok", "err"}

(***************************************************************************)
(* process_onchain_events on its own (src/src/reactor.rs): the loop over   *)
(* the items of the adjudicator streams, whatever they are.  An item is an *)
(* error of the stream or an event, with or without metadata; the block of *)
(* an event is found, not found, or its lookup fails.  chain_loop.log is   *)
(* the outcome of each item taken and chain_loop.last the last item.       *)
(***************************************************************************)
LoopEvents ==
    [status : {"Added", "Removed"}, lessor : {"a1", Own}, lessee : {Own, "a2"},
     nonce : {1}, transaction_hash : {<<"tx", "a1", 1>>}, block : {1}]

StreamItems ==
    {[kind |-> "err"]}
    \cup [kind : {"event"}, meta : {FALSE}, block : {"found"}, ev : LoopEvents]
    \cup [kind : {"event"}, meta : {TRUE}, block : {"found", "not found", "error"},
          ev : LoopEvents]

\* What process_onchain_event does for an event whose block was found.
outcome_of(leases, ev) ==
    IF ev.lessee = Own
    THEN IF rent_find(leases, ev.lessor, ev.nonce) = {}
         THEN "lease not found" ELSE "applied"
    ELSE IF ev.lessor = Own THEN "lets" ELSE "not ours"

\* The confirmations of the leases an event is about.
confirmations_of(leases, ev) ==
    {leases[k].chain_confirmation : k \in rent_find(leases, ev.lessor, ev.nonce)}

\* One turn of the loop of process_onchain_events, with
\* process_onchain_event for an event that has its metadata.  last keeps the
\* item with the confirmations its leases have once it is handled.
StreamItem(item) ==
    /\ chain_loop.pc = "running"
    /\ Len(chain_loop.log) < MaxItems
    /\ IF item.kind = "err"
       THEN /\ chain_loop' = [chain_loop EXCEPT
                                 !.log = Append(@, "stream error"),
                                 !.last = Some([item |-> item, confirmations |-> {}])]
            /\ UNCHANGED leases_rent
       ELSE IF ~item.meta
       THEN /\ chain_loop' = [pc |-> "panicked",
                              log |-> Append(chain_loop.log, "unreachable"),
                              last |-> Some([item |-> item, confirmations |-> {}])]
            /\ UNCHANGED leases_rent
       ELSE IF item.block # "found"
       THEN /\ chain_loop' = [chain_loop EXCEPT
                                 !.log = Append(@, IF item.block = "error"
                                                   THEN "transport error"
                                                   ELSE "block not found"),
                                 !.last = Some([item |-> item, confirmations |-> {}])]
            /\ UNCHANGED leases_rent
       ELSE /\ leases_rent' = process_onchain_event(leases_rent, item.ev)
            /\ chain_loop' = [chain_loop EXCEPT
                                 !.log = Append(@, outcome_of(leases_rent, item.ev)),
                                 !.last = Some([item |-> item,
                                                confirmations |->
                                                    confirmations_of(leases_rent',
                                                                     item.ev)])]
    /\ UNCHANGED <<lessorVars, calls, pending_proposals, chainVars, handled,
                   receivers, notified, merkle, commands, policy, wait, p2pVars,
                   wireVars>>

NextLoop ==
    \/ \E in \in LeaseInputs : LeaseCall(in)
    \/ \E item \in StreamItems : StreamItem(item)

SpecLoop == Init /\ [][NextLoop]_vars

\* The last item taken is an Added event, with its metadata and its block,
\* of a lease this node had persisted as lessee.
LastIsTrackedAdded ==
    /\ chain_loop.last # None
    /\ chain_loop.last[1].item.kind = "event"
    /\ chain_loop.last[1].item.meta
    /\ chain_loop.last[1].item.block = "found"
    /\ chain_loop.last[1].item.ev.status = "Added"
    /\ chain_loop.last[1].item.ev.lessee = Own
    /\ LastItem(chain_loop.log) = "applied"

\* C30: the chain-event loop never exits because of an event.  After a
\* failure on one item (an error item, a block that is not found, a lease
\* that is not found, an event with no metadata, an event that belongs to no
\* one) the loop takes the following items, and a later Added event of a
\* tracked lease is applied.
C30_LoopSurvives ==
    /\ chain_loop.pc = "running"
    /\ LastIsTrackedAdded =>
           chain_loop.last[1].confirmations =
               {Some(ChainConfirmation(chain_loop.last[1].item.ev.transaction_hash,
                                       timestamp(chain_loop.last[1].item.ev.block)))}

(***************************************************************************)
(* Persistence under the lease commands and the chain loop: the part of    *)
(* lease that writes persistence, as often as MaxStores allows and with    *)
(* whatever nonce rand::random() gives, and the loop above.                *)
(***************************************************************************)
MaxStores == 2

RentInputs == {in \in LeaseInputs : in.nonce = 1 /\ in.peer_id \in {"p1", "p2"}}

LeaseCommand(in) ==
    /\ Len(calls) < MaxStores
    /\ LeaseStore(in)

NextRent ==
    \/ \E in \in RentInputs : LeaseCommand(in)
    \/ \E item \in StreamItems : StreamItem(item)

SpecRent == Init /\ [][NextRent]_vars

\* C34: every lease in persistence is the post-image of exactly one lease
\* command: a later lease command leaves the entries the earlier commands
\* wrote as they are, and resets no confirmation to none.
C34_NeverOverwrites ==
    [][calls' # calls =>
          \A k \in DOMAIN leases_rent :
              /\ k \in DOMAIN leases_rent'
              /\ leases_rent'[k] = leases_rent[k]]_vars

\* The loop has just taken an event, with its block, for which
\* rent_update_chain found the lease and returned Ok.
TookApplied ==
    /\ chain_loop'.log # chain_loop.log
    /\ LastItem(chain_loop'.log) = "applied"

\* The chain_confirmation process_onchain_event gives rent_update_chain.
confirmation_of(ev) ==
    IF ev.status = "Added"
    THEN Some(ChainConfirmation(ev.transaction_hash, timestamp(ev.block)))
    ELSE None

\* C35: a successful rent_update_chain(peer_address, nonce, c) changes only
\* the chain_confirmation of the one lease matching (peer_address, nonce):
\* its key and its other fields, the number of leases and every other lease
\* stay as they were.
C35_UpdateChainFrame ==
    [][TookApplied =>
          LET ev == chain_loop'.last[1].item.ev
              found == rent_find(leases_rent, ev.lessor, ev.nonce)
          IN /\ DOMAIN leases_rent' = DOMAIN leases_rent
             /\ Cardinality(found) = 1
             /\ \A k \in DOMAIN leases_rent :
                    leases_rent'[k] =
                        IF k \in found
                        THEN [leases_rent[k] EXCEPT
                                 !.chain_confirmation = confirmation_of(ev)]
                        ELSE leases_rent[k]]_vars

\* An Added event was applied to one of two persisted leases of the same
\* nonce: that one is confirmed, the other one is not.
C35_Witness ==
    /\ chain_loop.log # <<>>
    /\ LastItem(chain_loop.log) = "applied"
    /\ chain_loop.last[1].item.ev.status = "Added"
    /\ Cardinality(DOMAIN leases_rent) = 2
    /\ \E k \in DOMAIN leases_rent :
           /\ leases_rent[k].peer_address = chain_loop.last[1].item.ev.lessor
           /\ leases_rent[k].chain_confirmation # None
           /\ \A j \in DOMAIN leases_rent \ {k} :
                  /\ leases_rent[j].nonce = leases_rent[k].nonce
                  /\ leases_rent[j].chain_confirmation = None

\* The loop has just taken an event, with its block, of which this node is
\* not the lessee: it is the lessor of it, or no party to it.
TookOthers ==
    /\ chain_loop'.log # chain_loop.log
    /\ LastItem(chain_loop'.log) \in {"lets", "not ours"}

\* C36: handling a LeaseSealed event, Added or Removed, of which this node is
\* the lessor and not the lessee, or no party at all, leaves persistence as
\* it is.
C36_OthersLeavePersistence ==
    [][/\ TookOthers =>
             /\ leases_rent' = leases_rent
             /\ chain_loop'.pc = "running"
       /\ (/\ chain_loop'.log # chain_loop.log
           /\ chain_loop'.last[1].item.kind = "event"
           /\ chain_loop'.last[1].item.meta
           /\ chain_loop'.last[1].item.block = "found"
           /\ chain_loop'.last[1].item.ev.lessee # Own) => TookOthers]_vars

\* An Added event this node is the lessor of was handled while the node
\* rents, unconfirmed, from the lessee of that event under the same nonce.
C36_Witness ==
    /\ chain_loop.log # <<>>
    /\ LastItem(chain_loop.log) = "lets"
    /\ chain_loop.last[1].item.ev.status = "Added"
    /\ \E k \in DOMAIN leases_rent :
           /\ leases_rent[k].peer_address = chain_loop.last[1].item.ev.lessee
           /\ leases_rent[k].nonce = chain_loop.last[1].item.ev.nonce
           /\ leases_rent[k].chain_confirmation = None

\* The loop has just taken an event, with its block, of which this node is
\* the lessee and for which rent_update_chain found no lease.
TookLeaseNotFound ==
    /\ chain_loop'.log # chain_loop.log
    /\ LastItem(chain_loop'.log) = "lease not found"

\* C31: rent_update_chain called when no persisted lease has the
\* (peer_address, nonce) returns LeaseNotFound and leaves every persisted
\* lease as it is; when that happens for an Added or a Removed event the
\* loop logs it and goes on.
C31_LeaseNotFound ==
    [][TookLeaseNotFound =>
          /\ rent_find(leases_rent, chain_loop'.last[1].item.ev.lessor,
                       chain_loop'.last[1].item.ev.nonce) = {}
          /\ leases_rent' = leases_rent
          /\ chain_loop'.pc = "running"]_vars

\* A Removed event found no lease while another lease is persisted, after
\* an earlier event found none either.
C31_Witness ==
    /\ Len(chain_loop.log) = 2
    /\ chain_loop.log[1] = "lease not found"
    /\ chain_loop.log[2] = "lease not found"
    /\ chain_loop.last[1].item.ev.status = "Removed"
    /\ chain_loop.pc = "running"
    /\ DOMAIN leases_rent # {}

(***************************************************************************)
(* The correlator (src/src/utils/sync.rs), on the instance the node keeps  *)
(* for proposal rejections: pending_proposals holds the senders of a k,  *)
(* receivers the futures handed out.  A future is resolved by the value    *)
(* sent to it; a future that was dropped receives nothing.                 *)
(***************************************************************************)
SyncKeys == {<<"p1", 1>>, <<"p1", 2>>}

SyncValues == {"total tokens too small", "penalty too high"}

\* new_listener: a sender is pushed under the key.
new_listener(listeners, k, sender) == [listeners EXCEPT ![k] = Append(@, sender)]

\* sender.send(value.clone()), were it to send the default value.
send_default(recv, senders, value) ==
    [id \in DOMAIN recv |->
        IF (\E i \in DOMAIN senders : senders[i] = id) /\ ~recv[id].dropped
        THEN [recv[id] EXCEPT !.value = Some("")]
        ELSE recv[id]]

\* sender.send(value.clone()) for every sender: the receiver gets the value
\* unless it was dropped, and then the send is an error that is logged.
send(recv, senders, value) ==
    [id \in DOMAIN recv |->
        IF (\E i \in DOMAIN senders : senders[i] = id) /\ ~recv[id].dropped
        THEN [recv[id] EXCEPT !.value = Some(value)]
        ELSE recv[id]]

NewListener(k) ==
    /\ Len(receivers) < MaxListeners
    /\ pending_proposals' = new_listener(pending_proposals, k, Len(receivers) + 1)
    /\ receivers' = Append(receivers, [key |-> k, value |-> None, dropped |-> FALSE])
    /\ UNCHANGED <<nodeVars, serviceVars, notified, merkle, commands, policy>>

\* notify: the senders of the key are taken out of the map, their number is
\* the result, and the value is sent through each of them.
Notify(k, value) ==
    /\ notified.seq < MaxNotifies
    /\ LET senders == pending_proposals[k]
       IN /\ pending_proposals' = notify(pending_proposals, k)
          /\ receivers' = send(receivers, senders, value)
          /\ notified' = [seq |-> notified.seq + 1, key |-> k, value |-> value,
                          res |-> Len(senders)]
    /\ UNCHANGED <<nodeVars, serviceVars, merkle, commands, policy>>

\* The holder of a future drops it before it is resolved, as the select! of
\* lease does with the branch that lost.
DropReceiver(id) ==
    /\ receivers[id].value = None
    /\ ~receivers[id].dropped
    /\ receivers' = [receivers EXCEPT ![id].dropped = TRUE]
    /\ UNCHANGED <<nodeVars, serviceVars, pending_proposals, notified, merkle, commands, policy>>

NextSync ==
    \/ \E k \in SyncKeys : NewListener(k)
    \/ \E k \in SyncKeys, value \in SyncValues : Notify(k, value)
    \/ \E id \in DOMAIN receivers : DropReceiver(id)

SpecSync == Init /\ [][NextSync]_vars

\* The senders registered under a key.
Registered(k) == {pending_proposals[k][i] : i \in DOMAIN pending_proposals[k]}

\* The step is a call of notify.
IsNotify == notified'.seq = notified.seq + 1

\* C11: a future that new_listener returned, and that its holder keeps,
\* stays registered under its key until a notify for the key, and that
\* notify resolves it to the value notified; a notify for a key with no
\* sender registered returns 0 and leaves the listeners and the futures as
\* they are.
C11_CorrelatorCorrect ==
    [][/\ \A id \in DOMAIN receivers :
             (receivers[id].value = None /\ ~receivers[id].dropped) =>
                 id \in Registered(receivers[id].key)
       /\ IsNotify =>
             /\ \A id \in DOMAIN receivers :
                   (/\ receivers[id].key = notified'.key
                    /\ receivers[id].value = None
                    /\ ~receivers[id].dropped) =>
                       receivers'[id].value = Some(notified'.value)
             /\ Registered(notified'.key) = {} =>
                   /\ notified'.res = 0
                   /\ pending_proposals' = pending_proposals
                   /\ receivers' = receivers]_vars

\* A future was resolved by a notify, and a later notify found no sender.
C11_Witness ==
    /\ \E id \in DOMAIN receivers : receivers[id].value # None
    /\ notified.seq = 2
    /\ notified.res = 0

\* The futures a step resolves.
Resolved == {id \in DOMAIN receivers : receivers[id].value = None
                                       /\ receivers'[id].value # None}

\* C12 (as claimed): notify removes every listener of the key, delivers the
\* value to each, leaves the listeners of other keys untouched, and returns
\* the number of listeners that were notified.
C12_NotifyCountsNotified ==
    [][IsNotify =>
          /\ pending_proposals'[notified'.key] = <<>>
          /\ \A other \in Keys \ {notified'.key} :
                pending_proposals'[other] = pending_proposals[other]
          /\ \A id \in Resolved : receivers'[id].value = Some(notified'.value)
          /\ notified'.res = Cardinality(Resolved)]_vars

(***************************************************************************)
(* The peer network at work (src/src/p2p/mod.rs, behaviour.rs, p2pim.rs).  *)
(* A message of a peer goes through inject_event of p2pim and of the       *)
(* behaviour into events_queue; poll_next takes the events in order,       *)
(* notifies the correlator table of a response and returns the others to   *)
(* process_p2p_events.  A request registers its listener and hands its     *)
(* message to the network in two steps, between which poll_next can run.   *)
(* An event keeps `after`, the requests handed to the network before its   *)
(* message came in.                                                        *)
(***************************************************************************)
MaxRequests == 1

MaxMessages == 2

Messages ==
    [type : {"LeaseProposal"}, nonce : P2pNonces, valid : BOOLEAN]
    \cup [type : {"LeaseRejection", "RetrieveRequest", "RetrieveDelivery"},
          nonce : P2pNonces]
    \cup [type : {"ChallengeRequest", "ChallengeResponse"},
          nonce : P2pNonces, block_number : {0}]
    \cup {[type |-> "None"]}

ProposalMessages == {message \in Messages : message.type = "LeaseProposal"}

\* Behaviour::peer_info and Service::find_public_key on the directory
find_public_key_in(known, peer_id) ==
    IF peer_id \in DOMAIN known /\ known[peer_id].public_key.kind = "Secp256k1"
    THEN Some(known[peer_id].public_key)
    ELSE None

\* inject_event of p2pim, then of the behaviour, which queues the event of
\* the same content: the event queued, a warning, or the panic of todo!.
inject_event(peer_id, message) ==
    CASE message.type = "ChallengeRequest" ->
             [out |-> "event",
              event |-> [type |-> "ReceivedChallengeRequest", peer_id |-> peer_id,
                         challenge_key |-> [nonce |-> message.nonce,
                                            block_number |-> message.block_number]]]
      [] message.type = "ChallengeResponse" ->
             [out |-> "event",
              event |-> [type |-> "ReceivedChallengeResponse", peer_id |-> peer_id,
                         challenge_key |-> [nonce |-> message.nonce,
                                            block_number |-> message.block_number]]]
      [] message.type = "LeaseProposal" ->
             IF message.valid
             THEN [out |-> "event",
                   event |-> [type |-> "ReceivedLeaseProposal", peer_id |-> peer_id,
                              nonce |-> message.nonce]]
             ELSE [out |-> "warn"]
      [] message.type = "LeaseRejection" -> [out |-> "panic"]
      [] message.type = "RetrieveRequest" ->
             [out |-> "event",
              event |-> [type |-> "ReceivedRetrieveRequest", peer_id |-> peer_id,
                         nonce |-> message.nonce]]
      [] message.type = "RetrieveDelivery" ->
             [out |-> "event",
              event |-> [type |-> "ReceivedRetrieveDelivery", peer_id |-> peer_id,
                         nonce |-> message.nonce]]
      [] OTHER -> [out |-> "warn"]

\* The events poll_next hands to a correlator table, the table and the key.
IsResponse(event) ==
    event.type \in {"ReceivedChallengeResponse", "ReceivedRetrieveDelivery",
                    "ReceivedLeaseProposalRejection"}

table_of(event) ==
    CASE event.type = "ReceivedChallengeResponse" -> "pending_challenges"
      [] event.type = "ReceivedRetrieveDelivery" -> "pending_retrieves"
      [] OTHER -> "pending_proposals"

key_of(event) ==
    IF event.type = "ReceivedChallengeResponse"
    THEN <<event.peer_id, event.challenge_key>>
    ELSE <<event.peer_id, event.nonce>>

\* The table and the key of a request.
RequestTable(op) ==
    CASE op = "challenge" -> "pending_challenges"
      [] op = "retrieve" -> "pending_retrieves"
      [] OTHER -> "pending_proposals"

RequestKey(r) == <<requests[r].peer_id, requests[r].k>>

\* The requests go to the peer with the secp256k1 key.
RequestPeers == {from_public_key([kind |-> "Secp256k1", n |-> 1])}

RequestInputs ==
    [op : {"challenge"}, peer_id : RequestPeers, k : P2pChallengeKeys]
    \cup [op : {"retrieve", "send_proposal"}, peer_id : RequestPeers, k : P2pNonces]

\* challenge, retrieve and send_proposal, were the message handed to the
\* network before the listener is registered.
RequestStepsSendFirst == <<"send", "new_listener">>

\* The statements of challenge, retrieve and send_proposal before the await.
RequestSteps == <<"new_listener", "send">>

\* A call of challenge, retrieve or send_proposal.
P2pCall(in) ==
    /\ Len(requests) < MaxRequests
    /\ requests' = Append(requests, [op |-> in.op, peer_id |-> in.peer_id, k |-> in.k,
                                     step |-> 1, listening |-> FALSE, sent |-> FALSE,
                                     value |-> None])
    /\ UNCHANGED <<nodeVars, syncVars, merkle, commands, policy, wait, chain_loop, wireVars,
                   directory, warned, events_queue, pending, stream, routed, swarm>>

\* The next statement of a request.
RequestStep(r) ==
    /\ requests[r].step <= Len(RequestSteps)
    /\ IF RequestSteps[requests[r].step] = "new_listener"
       THEN /\ pending' = [pending EXCEPT ![RequestTable(requests[r].op)] =
                              new_listener(@, RequestKey(r), r)]
            /\ requests' = [requests EXCEPT ![r].step = @ + 1,
                                            ![r].listening = TRUE]
       ELSE /\ requests' = [requests EXCEPT ![r].step = @ + 1, ![r].sent = TRUE]
            /\ UNCHANGED pending
    /\ UNCHANGED <<nodeVars, syncVars, merkle, commands, policy, wait, chain_loop, wireVars,
                   directory, warned, events_queue, stream, routed, swarm>>

\* A protocol message of a peer reaches the handlers.
InjectMessage(peer_id, message) ==
    /\ swarm = "running"
    /\ Len(events_queue) + Len(stream) + Len(routed) < MaxMessages
    /\ LET res == inject_event(peer_id, message)
       IN /\ swarm' = IF res.out = "panic" THEN "panicked" ELSE swarm
          /\ events_queue' =
                IF res.out = "event"
                THEN Append(events_queue,
                            [event |-> res.event,
                             after |-> {r \in DOMAIN requests : requests[r].sent}])
                ELSE events_queue
    /\ UNCHANGED <<nodeVars, syncVars, merkle, commands, policy, wait, chain_loop, wireVars,
                   directory, warned, requests, pending, stream, routed>>

\* poll_next on the next event of the queue.
PollNext ==
    /\ swarm = "running"
    /\ events_queue # <<>>
    /\ LET e == Head(events_queue)
           table == table_of(e.event)
           senders == pending[table][key_of(e.event)]
       IN IF IsResponse(e.event)
          THEN /\ pending' = [pending EXCEPT ![table] = notify(@, key_of(e.event))]
               /\ requests' =
                     [r \in DOMAIN requests |->
                         IF \E i \in DOMAIN senders : senders[i] = r
                         THEN [requests[r] EXCEPT !.value = Some(e.event)]
                         ELSE requests[r]]
               /\ routed' = Append(routed, [event |-> e.event, table |-> table,
                                            key |-> key_of(e.event),
                                            count |-> Len(senders),
                                            after |-> e.after])
               /\ UNCHANGED stream
          ELSE /\ stream' = Append(stream, [event |-> e.event, result |-> None])
               /\ UNCHANGED <<pending, requests, routed>>
    /\ events_queue' = Tail(events_queue)
    /\ UNCHANGED <<nodeVars, syncVars, merkle, commands, policy, wait, chain_loop, wireVars,
                   directory, warned, swarm>>

\* process_p2p_events on the next event of the stream, with the task it
\* spawns.  A proposal the policy accepts has its peer resolved, and expect
\* panics when the directory has no key for it.
ProcessP2pEvent(accepted) ==
    /\ \E i \in DOMAIN stream :
           /\ stream[i].result = None
           /\ \A j \in 1..(i - 1) : stream[j].result # None
           /\ stream' = [stream EXCEPT ![i].result =
                 IF stream[i].event.type # "ReceivedLeaseProposal" THEN Some("spawned")
                 ELSE IF ~accepted THEN Some("rejected")
                 ELSE IF find_public_key_in(directory, stream[i].event.peer_id) = None
                 THEN Some("panic")
                 ELSE Some("resolved")]
    /\ UNCHANGED <<nodeVars, syncVars, merkle, commands, policy, wait, chain_loop, wireVars,
                   directory, warned, events_queue, requests, pending, routed, swarm>>

\* IdentifyReceived, were the key not compared with the peer id.
IdentifyReceivedAnyKey(peer_id, info) ==
    /\ swarm = "running"
    /\ IF info.protocol_version # PROTOCOL_VERSION
       THEN UNCHANGED <<directory, warned>>
       ELSE IF info.public_key.kind = "Secp256k1"
       THEN directory' = (peer_id :> info) @@ directory /\ UNCHANGED warned
       ELSE warned' = warned \cup {peer_id} /\ UNCHANGED directory
    /\ UNCHANGED <<nodeVars, syncVars, merkle, commands, policy, wait, chain_loop, wireVars,
                   events_queue, requests, pending, stream, routed, swarm>>

\* inject_event of the behaviour for IdentifyEvent::Received
IdentifyReceived(peer_id, info) ==
    /\ swarm = "running"
    /\ IF info.protocol_version # PROTOCOL_VERSION
       THEN UNCHANGED <<directory, warned>>
       ELSE IF from_public_key(info.public_key) # peer_id
       THEN warned' = warned \cup {peer_id} /\ UNCHANGED directory
       ELSE IF info.public_key.kind = "Secp256k1"
       THEN directory' = (peer_id :> info) @@ directory /\ UNCHANGED warned
       ELSE warned' = warned \cup {peer_id} /\ UNCHANGED directory
    /\ UNCHANGED <<nodeVars, syncVars, merkle, commands, policy, wait, chain_loop, wireVars,
                   events_queue, requests, pending, stream, routed, swarm>>

NextP2p ==
    \/ \E in \in RequestInputs : P2pCall(in)
    \/ \E r \in DOMAIN requests : RequestStep(r)
    \/ \E peer_id \in RemotePeers, message \in Messages : InjectMessage(peer_id, message)
    \/ PollNext

SpecP2p == Init /\ [][NextP2p]_vars

\* The Identify handshakes and the proposals of the peers, with the tasks
\* process_p2p_events spawns for them.
NextIdentify ==
    \/ \E peer_id \in P2pPeers, info \in IdentifyInfos : IdentifyReceived(peer_id, info)
    \/ \E peer_id \in RemotePeers, message \in ProposalMessages :
           InjectMessage(peer_id, message)
    \/ PollNext
    \/ \E accepted \in BOOLEAN : ProcessP2pEvent(accepted)

SpecIdentify == Init /\ [][NextIdentify]_vars

\* The request is the one a routed response answers: same table, same key.
Answers(i, r) ==
    /\ RequestTable(requests[r].op) = routed[i].table
    /\ RequestKey(r) = routed[i].key

\* C25: challenge, retrieve and send_proposal insert the listener for the
\* response key before the request is handed to the network, so in every
\* interleaving with poll_next a response that came in after the send found
\* the listener: once it is routed the request is resolved, and none waits
\* for a response that was counted as unexpected.
C25_ListenerBeforeSend ==
    /\ \A r \in DOMAIN requests : requests[r].sent => requests[r].listening
    /\ \A i \in DOMAIN routed : \A r \in routed[i].after :
           Answers(i, r) => requests[r].value # None

\* A response that came in after the send of its request was routed to the
\* listener of the request.
C25_Witness ==
    \E i \in DOMAIN routed : \E r \in routed[i].after :
        /\ Answers(i, r)
        /\ routed[i].count = 1
        /\ requests[r].value = Some(routed[i].event)

\* C27: every received ChallengeResponse, RetrieveDelivery and LeaseRejection
\* is routed to the correlator table of its kind under its key and is never
\* returned on the event stream, and with no listener for the key it is
\* dropped and the event loop goes on.
C27_ResponsesRouted ==
    /\ swarm = "running"
    /\ \A i \in DOMAIN stream : ~IsResponse(stream[i].event)
    /\ \A i \in DOMAIN routed :
           /\ routed[i].table = table_of(routed[i].event)
           /\ routed[i].key = key_of(routed[i].event)

\* C28: whenever process_p2p_events handles a ReceivedLeaseProposal of a
\* peer, the peer is in the directory, so resolving its address never fails.
C28_ProposalPeerIdentified ==
    \A i \in DOMAIN stream :
        (stream[i].event.type = "ReceivedLeaseProposal" /\ stream[i].result # None) =>
            /\ stream[i].event.peer_id \in DOMAIN directory
            /\ stream[i].result # Some("panic")

\* Every entry of the directory holds a secp256k1 key that hashes to the
\* peer id of the entry, and find_public_key returns no other key.
DirectoryKeys ==
    /\ \A peer_id \in DOMAIN directory :
           /\ directory[peer_id].public_key.kind = "Secp256k1"
           /\ from_public_key(directory[peer_id].public_key) = peer_id
    /\ \A peer_id \in P2pPeers :
           find_public_key_in(directory, peer_id) # None =>
               from_public_key(find_public_key_in(directory, peer_id)[1]) = peer_id

\* The directory changes only by the entry of a peer whose secp256k1 key
\* hashes to its peer id.
DirectoryStep ==
    directory' # directory =>
        \E peer_id \in P2pPeers, info \in IdentifyInfos :
            /\ info.public_key.kind = "Secp256k1"
            /\ from_public_key(info.public_key) = peer_id
            /\ directory' = (peer_id :> info) @@ directory

\* C29: in every reachable state each entry of the peer directory holds a
\* secp256k1 public key that hashes to the peer id of the entry; an Identify
\* result whose key does not hash to the announcing peer id, or is not
\* secp256k1, adds no entry and replaces none, so find_public_key(peer)
\* returns no key that does not belong to peer.
C29_DirectoryKeys == []DirectoryKeys /\ [][DirectoryStep]_vars

\* A peer of the directory announced a key that is not its own and kept its
\* entry, and a peer with another kind of key has no entry.
C29_Witness ==
    /\ \E peer_id \in warned : peer_id \in DOMAIN directory
    /\ \E peer_id \in warned : peer_id \notin DOMAIN directory

(***************************************************************************)
(* The Merkle tree at work (src/src/cryptography.rs, src/src/data.rs).     *)
(* merkle is one tree and the blob it is built of: the bytes are fed in    *)
(* calls of append_data, root is asked once all of them are fed, and a     *)
(* proof made by Service::proof of data.rs is checked by Service::verify.  *)
(***************************************************************************)
Bytes(n) == [i \in 1..n |-> i % 251]

DataSizes == {0, 1, BLOCK_SIZE_BYTES - 1, BLOCK_SIZE_BYTES, BLOCK_SIZE_BYTES + 1,
              2 * BLOCK_SIZE_BYTES, 2 * BLOCK_SIZE_BYTES + 1}

ChunkSizes == {1, BLOCK_SIZE_BYTES - 1, BLOCK_SIZE_BYTES, BLOCK_SIZE_BYTES + 1,
               2 * BLOCK_SIZE_BYTES, 2 * BLOCK_SIZE_BYTES + 1}

\* ceil(|data| / 544)
blocks_of(size) ==
    (size \div BLOCK_SIZE_BYTES) + (IF size % BLOCK_SIZE_BYTES = 0 THEN 0 ELSE 1)

\* new_merkle_tree for a blob
NewTree(size) ==
    /\ merkle.pc = "none"
    /\ merkle' = [pc |-> "feed", data |-> Bytes(size), fed |-> 0, appends |-> 0,
                  tree |-> new_merkle_tree, root |-> None,
                  before |-> new_merkle_tree, again |-> None, after |-> None,
                  folder |-> <<>>, answer |-> None,
                  block_number |-> 0, proof |-> None, valid |-> None]
    /\ UNCHANGED <<nodeVars, serviceVars, syncVars, commands, policy>>

\* append_data with the next n bytes of the blob
AppendData(n) ==
    /\ merkle.pc = "feed"
    /\ merkle.appends < MaxAppends
    /\ merkle.fed + n <= Len(merkle.data)
    /\ merkle' = [merkle EXCEPT
                     !.tree = append_data(@, SubSeq(merkle.data, merkle.fed + 1,
                                                    merkle.fed + n)),
                     !.fed = @ + n,
                     !.appends = @ + 1]
    /\ UNCHANGED <<nodeVars, serviceVars, syncVars, commands, policy>>

\* root, once the whole blob is fed: abort_uncommitted drops the leaves,
\* none of which was committed.  before keeps the tree as it was.
Root ==
    /\ merkle.pc = "feed"
    /\ merkle.fed = Len(merkle.data)
    /\ merkle' = [merkle EXCEPT !.pc = "rooted",
                                !.root = Some(root(merkle.tree)),
                                !.before = merkle.tree,
                                !.tree.inner = <<>>]
    /\ UNCHANGED <<nodeVars, serviceVars, syncVars, commands, policy>>

\* root a second time on the same tree
RootAgain ==
    /\ merkle.pc = "rooted"
    /\ merkle.again = None
    /\ merkle' = [merkle EXCEPT !.again = Some(root(merkle.tree)),
                                !.tree.inner = <<>>]
    /\ UNCHANGED <<nodeVars, serviceVars, syncVars, commands, policy>>

\* proof on the tree after root
ProofAfterRoot(leaf_index) ==
    /\ merkle.pc = "rooted"
    /\ merkle.after = None
    /\ merkle' = [merkle EXCEPT !.after =
                     Some([leaf_index |-> leaf_index,
                           proof |-> proof(merkle.tree, leaf_index)])]
    /\ UNCHANGED <<nodeVars, serviceVars, syncVars, commands, policy>>

\* Service::proof of data.rs for a block of the blob
DataProof(block_number) ==
    /\ merkle.pc = "rooted"
    /\ merkle.proof = None
    /\ merkle' = [merkle EXCEPT !.block_number = block_number,
                                !.proof = Some(data_proof(merkle.data, block_number))]
    /\ UNCHANGED <<nodeVars, serviceVars, syncVars, commands, policy>>

\* Nothing was asked of the tree since its root.
Untouched ==
    /\ merkle.again = None
    /\ merkle.after = None
    /\ merkle.proof = None

\* Service::store of data.rs of the blob for (peer_id, nonce): parameters,
\* which ends in root, then the write of the file.
DataStore(peer_id, nonce) ==
    /\ merkle.pc = "rooted"
    /\ Untouched
    /\ ~root_panics(append_data(new_merkle_tree, merkle.data))
    /\ merkle' = [merkle EXCEPT !.pc = "stored",
                                !.folder = fs_write(@, <<peer_id, nonce>>, merkle.data)]
    /\ UNCHANGED <<nodeVars, serviceVars, syncVars, commands, policy>>

\* Service::proof of data.rs asked to the store for (peer_id, nonce)
StoreProof(peer_id, nonce, block_number) ==
    /\ merkle.pc \in {"rooted", "stored"}
    /\ Untouched
    /\ merkle' = [merkle EXCEPT !.pc = "answered",
                     !.answer =
                        Some([peer_id |-> peer_id, nonce |-> nonce,
                              block_number |-> block_number,
                              result |-> store_proof(merkle.folder, peer_id, nonce,
                                                     block_number)])]
    /\ UNCHANGED <<nodeVars, serviceVars, syncVars, commands, policy>>

\* Service::verify of data.rs of the proof made, against parameters(data)
DataVerify ==
    /\ merkle.pc = "rooted"
    /\ merkle.proof # None
    /\ merkle.proof[1].ok
    /\ merkle.valid = None
    /\ Len(merkle.data) > 0
    /\ merkle' = [merkle EXCEPT !.valid =
                     Some(data_verify(parameters(merkle.data), merkle.block_number,
                                      merkle.proof[1].block_data,
                                      merkle.proof[1].proof))]
    /\ UNCHANGED <<nodeVars, serviceVars, syncVars, commands, policy>>

NextMerkle ==
    \/ \E size \in DataSizes : NewTree(size)
    \/ \E n \in ChunkSizes : AppendData(n)
    \/ Root
    \/ RootAgain
    \/ \E leaf_index \in 0..MaxBlockNumber : ProofAfterRoot(leaf_index)
    \/ \E block_number \in 0..MaxBlockNumber : DataProof(block_number)
    \/ DataVerify
    \/ DataStore("p1", 1)
    \/ \E nonce \in Nonces, block_number \in 0..MaxBlockNumber :
           StoreProof("p1", nonce, block_number)

SpecMerkle == Init /\ [][NextMerkle]_vars

\* C19: Merkle round-trip.  Whenever the block of a blob at a leaf index
\* below ceil(|data| / 544) is verified with the proof made for that index
\* against the root and the size of the blob, the verification returns true.
C19_MerkleRoundTrip ==
    (/\ merkle.pc = "rooted"
     /\ merkle.valid # None
     /\ merkle.block_number < blocks_of(Len(merkle.data)))
        => merkle.valid = Some(TRUE)

\* A proof of the second block of a blob of three blocks was verified.
C19_Witness ==
    /\ merkle.pc = "rooted"
    /\ merkle.valid = Some(TRUE)
    /\ merkle.block_number = 1
    /\ blocks_of(Len(merkle.data)) = 3
    /\ Len(merkle.proof[1].proof) = 2

\* C20: the root does not depend on the chunks.  Once all the bytes of a
\* blob are fed, in whatever calls of append_data, the tree has one leaf per
\* block of 544 bytes and root returns the root of the blob fed in one call.
C20_RootIndependentOfChunking ==
    /\ (merkle.pc = "feed" /\ merkle.fed = Len(merkle.data)) =>
           Len(merkle.tree.inner) = blocks_of(Len(merkle.data))
    /\ (merkle.pc = "rooted" /\ Len(merkle.data) > 0) =>
           merkle.root = Some(parameters(merkle.data).merkle_root)

\* C21: root is non-destructive.  A second root on the same tree returns
\* the bytes of the first, and proof(i) after root returns the proof that
\* proof(i) gives on the tree as it was fed, without root.
C21_RootNonDestructive ==
    (merkle.pc = "rooted" /\ Len(merkle.data) > 0) =>
        /\ merkle.again # None => merkle.again = merkle.root
        /\ merkle.after # None =>
               merkle.after[1].proof = proof(merkle.before, merkle.after[1].leaf_index)

\* C22: the root of the empty input is the Keccak-256 of the empty byte
\* string: root on a tree that was fed no byte returns it instead of failing,
\* and the parameters of empty data are that root and size 0.
C22_EmptyRoot ==
    (merkle.pc = "rooted" /\ Len(merkle.data) = 0) =>
        /\ merkle.root = Some(hash(<<>>))
        /\ parameters(merkle.data) = [merkle_root |-> hash(<<>>), size |-> 0]

\* C23: the proof of the data store fails when no blob is stored for
\* (peer, nonce) and when block_number * 544 >= the length of the blob; a
\* (block, proof) pair is returned only for a block that exists in the blob.
C23_StoreProofBounds ==
    merkle.pc = "answered" =>
        LET a == merkle.answer[1]
            k == <<a.peer_id, a.nonce>>
        IN a.result.ok <=>
               /\ k \in DOMAIN merkle.folder
               /\ a.block_number * BLOCK_SIZE_BYTES < Len(merkle.folder[k])

(***************************************************************************)
(* Renter side: Service::challenge and Service::retrieve                   *)
(* (src/src/reactor.rs), on leases persisted by Service::lease.  A command *)
(* keeps the lease it read; p2p.challenge and p2p.retrieve register a      *)
(* listener, send the request and wait for the answer of the peer, which   *)
(* the p2p service hands to every listener of the key.  An answer nobody   *)
(* waits for is logged and changes nothing: the answers taken are the ones *)
(* to the key of a waiting command.                                        *)
(***************************************************************************)
ChallengeSizes == {BLOCK_SIZE_BYTES, BLOCK_SIZE_BYTES + 1, 2 * BLOCK_SIZE_BYTES}

ChallengeLeases ==
    { [peer_id |-> "p1", nonce |-> 1, terms |-> GoodTerms, data |-> Bytes(n)] :
          n \in ChallengeSizes }

ChallengeKeys == [nonce : Nonces, block_number : 0..MaxBlockNumber]

\* A blob or a list of hashes with its first element replaced.
tampered(seq, with) == IF seq = <<>> THEN <<with>> ELSE [seq EXCEPT ![1] = with]

\* What a peer may answer to a challenge: the proof send_proof makes for a
\* block of a blob, and that proof with another block or another first hash.
ChallengeProofs ==
    UNION { LET made == data_proof(Bytes(n), b)
                honest == [block_data |-> made.block_data, proof |-> made.proof]
            IN IF ~made.ok THEN {}
               ELSE { honest,
                      [honest EXCEPT !.block_data = tampered(@, 255)],
                      [honest EXCEPT !.proof = tampered(@, hash(<<>>))] } :
            n \in ChallengeSizes, b \in 0..MaxBlockNumber }

\* What a peer may deliver to a retrieve: a blob, whole, empty, with another
\* first byte or of another length.
Deliveries ==
    {Bytes(n) : n \in ChallengeSizes \cup {0}}
        \cup {tampered(Bytes(n), 255) : n \in ChallengeSizes}

Command(op, peer_id, nonce, block_number) ==
    [op |-> op, peer_id |-> peer_id, nonce |-> nonce, block_number |-> block_number,
     lease |-> rent_get(leases_rent, peer_id, nonce),
     pc |-> "done", sent |-> FALSE, recv |-> None, result |-> "none", data |-> None]

\* challenge up to the await of p2p.challenge
Challenge(peer_id, challenge_key) ==
    /\ Len(commands) < MaxCommands
    /\ LET c == Command("challenge", peer_id, challenge_key.nonce,
                        challenge_key.block_number)
       IN commands' = Append(commands,
              IF c.lease = None
              THEN [c EXCEPT !.result = "lease not found"]
              ELSE IF c.lease[1].data_parameters.size
                          < challenge_key.block_number * BLOCK_SIZE_BYTES
              THEN [c EXCEPT !.result = "block number is out of bounds"]
              ELSE [c EXCEPT !.pc = "wait", !.sent = TRUE])
    /\ UNCHANGED <<nodeVars, serviceVars, syncVars, merkle, policy>>

\* ReceivedChallengeResponse: pending_challenges.notify
ReceivedChallengeResponse(peer_id, challenge_key, challenge_proof) ==
    /\ commands' =
           [c \in DOMAIN commands |->
               IF /\ commands[c].op = "challenge"
                  /\ commands[c].pc = "wait"
                  /\ commands[c].peer_id = peer_id
                  /\ commands[c].nonce = challenge_key.nonce
                  /\ commands[c].block_number = challenge_key.block_number
               THEN [commands[c] EXCEPT !.pc = "resolved",
                                        !.recv = Some(challenge_proof)]
               ELSE commands[c]]
    /\ UNCHANGED <<nodeVars, serviceVars, syncVars, merkle, policy>>

\* challenge from the proof received on
ChallengeReturn(c) ==
    /\ commands[c].op = "challenge"
    /\ commands[c].pc = "resolved"
    /\ LET valid == data_verify(commands[c].lease[1].data_parameters,
                                commands[c].block_number,
                                commands[c].recv[1].block_data,
                                commands[c].recv[1].proof)
       IN commands' = [commands EXCEPT
                          ![c].pc = "done",
                          ![c].result = IF valid THEN "ok" ELSE "proof not valid"]
    /\ UNCHANGED <<nodeVars, serviceVars, syncVars, merkle, policy>>

\* retrieve up to the await of p2p.retrieve
Retrieve(peer_id, nonce) ==
    /\ Len(commands) < MaxCommands
    /\ LET c == Command("retrieve", peer_id, nonce, 0)
       IN commands' = Append(commands,
              IF c.lease = None
              THEN [c EXCEPT !.result = "lease not found"]
              ELSE [c EXCEPT !.pc = "wait", !.sent = TRUE])
    /\ UNCHANGED <<nodeVars, serviceVars, syncVars, merkle, policy>>

\* ReceivedRetrieveDelivery: pending_retrieves.notify
ReceivedRetrieveDelivery(peer_id, nonce, data) ==
    /\ commands' =
           [c \in DOMAIN commands |->
               IF /\ commands[c].op = "retrieve"
                  /\ commands[c].pc = "wait"
                  /\ commands[c].peer_id = peer_id
                  /\ commands[c].nonce = nonce
               THEN [commands[c] EXCEPT !.pc = "resolved", !.recv = Some(data)]
               ELSE commands[c]]
    /\ UNCHANGED <<nodeVars, serviceVars, syncVars, merkle, policy>>

\* retrieve from the data received on: parameters panics in root when the
\* data has no byte.
RetrieveReturn(c) ==
    /\ commands[c].op = "retrieve"
    /\ commands[c].pc = "resolved"
    /\ LET data == commands[c].recv[1]
           lease == commands[c].lease[1]
       IN commands' =
              IF root_panics(append_data(new_merkle_tree, data))
              THEN [commands EXCEPT ![c].pc = "panicked", ![c].result = "panic"]
              ELSE IF parameters(data).size # lease.data_parameters.size
              THEN [commands EXCEPT ![c].pc = "done",
                                    ![c].result = "unexpected data size"]
              ELSE IF parameters(data).merkle_root # lease.data_parameters.merkle_root
              THEN [commands EXCEPT
                       ![c].pc = "done",
                       ![c].result = "received data does not match with the merkle root"]
              ELSE [commands EXCEPT ![c].pc = "done", ![c].result = "ok",
                                    ![c].data = Some(data)]
    /\ UNCHANGED <<nodeVars, serviceVars, syncVars, merkle, policy>>

NextChallenge ==
    \/ \E in \in ChallengeLeases : LeaseCall(in)
    \/ \E challenge_key \in ChallengeKeys : Challenge("p1", challenge_key)
    \/ \E c \in DOMAIN commands, challenge_proof \in ChallengeProofs :
           /\ commands[c].pc = "wait"
           /\ ReceivedChallengeResponse(commands[c].peer_id,
                  [nonce |-> commands[c].nonce,
                   block_number |-> commands[c].block_number], challenge_proof)
    \/ \E c \in DOMAIN commands : ChallengeReturn(c)
    \/ \E nonce \in Nonces : Retrieve("p1", nonce)
    \/ \E c \in DOMAIN commands, data \in Deliveries :
           /\ commands[c].pc = "wait"
           /\ ReceivedRetrieveDelivery(commands[c].peer_id, commands[c].nonce, data)
    \/ \E c \in DOMAIN commands : RetrieveReturn(c)

SpecChallenge == Init /\ [][NextChallenge]_vars

\* The block of a blob at a block number.
block_of(data, block_number) ==
    SubSeq(data, block_number * BLOCK_SIZE_BYTES + 1,
           Min((block_number + 1) * BLOCK_SIZE_BYTES, Len(data)))

\* The blob a lease was made of.
Leased(lease) ==
    Bytes(CHOOSE n \in ChallengeSizes :
              /\ n = lease.data_parameters.size
              /\ parameters(Bytes(n)).merkle_root = lease.data_parameters.merkle_root)

\* C13: a challenge fails when no lease is persisted for (peer, nonce) and
\* when block_number * BLOCK_SIZE is at least the size of the lease; a
\* challenge request is sent only for block_number * BLOCK_SIZE below the size.
C13_ChallengeBounds ==
    \A c \in DOMAIN commands :
        commands[c].op = "challenge" =>
            /\ commands[c].lease = None =>
                   (commands[c].result = "lease not found" /\ ~commands[c].sent)
            /\ commands[c].lease # None =>
                   IF commands[c].block_number * BLOCK_SIZE_BYTES
                          >= commands[c].lease[1].data_parameters.size
                   THEN /\ commands[c].result = "block number is out of bounds"
                        /\ ~commands[c].sent
                   ELSE commands[c].sent

\* The proof received is the block of the leased blob at the block number
\* of the challenge, with the proof of that block.
Genuine(c) ==
    LET data == Leased(commands[c].lease[1])
        b == commands[c].block_number
        path == proof(append_data(new_merkle_tree, data), b)
        received == commands[c].recv[1]
    IN /\ received.block_data = block_of(data, b)
       /\ Len(received.proof) >= Len(path)
       /\ SubSeq(received.proof, 1, Len(path)) = path

\* C14: a challenge that received a proof returns OK exactly when the proof
\* verifies against the root and the size of the lease the challenge read
\* from persistence at key.block_number, and fails with "proof not valid"
\* for any other proof;
\* for a block of the blob the proof that verifies is the block itself with
\* its proof, so a proof with a modified block_data fails.
C14_ChallengeVerifies ==
    \A c \in DOMAIN commands :
        (commands[c].op = "challenge" /\ commands[c].pc = "done"
            /\ commands[c].recv # None) =>
            LET stored == commands[c].lease[1].data_parameters
                b == commands[c].block_number
            IN /\ commands[c].result = "ok" <=>
                      verify(b, commands[c].recv[1].block_data,
                             commands[c].recv[1].proof,
                             stored.merkle_root, stored.size)
               /\ commands[c].result \in {"ok", "proof not valid"}
               /\ b < blocks_of(stored.size) =>
                      (commands[c].result = "ok" <=> Genuine(c))

\* A challenge of the second block of a blob of two blocks returned OK.
C14_Witness ==
    \E c \in DOMAIN commands :
        /\ commands[c].op = "challenge"
        /\ commands[c].pc = "done"
        /\ commands[c].result = "ok"
        /\ commands[c].block_number = 1
        /\ Len(commands[c].recv[1].proof) = 1

\* C15: a retrieve returns the bytes delivered only when their size and
\* their root are the ones of the persisted lease; if one of them differs
\* it fails with a mismatch error and returns no data; it fails when no
\* lease is persisted for (peer, nonce).
C15_RetrieveChecks ==
    \A c \in DOMAIN commands :
        commands[c].op = "retrieve" =>
            /\ commands[c].lease = None =>
                   /\ commands[c].result = "lease not found"
                   /\ commands[c].data = None
            /\ (commands[c].recv # None /\ commands[c].pc # "resolved") =>
                   IF commands[c].recv[1] = Leased(commands[c].lease[1])
                   THEN /\ commands[c].result = "ok"
                        /\ commands[c].data = commands[c].recv
                   ELSE /\ commands[c].result \in
                               {"unexpected data size",
                                "received data does not match with the merkle root"}
                        /\ commands[c].data = None

(***************************************************************************)
(* The lessor policy at work (src/src/lessor.rs): a lessor configured with *)
(* an ask for the token t1 judges proposals, and policy keeps the ask, the *)
(* last proposal and its verdict.                                          *)
(***************************************************************************)
Asks ==
    { Ask1,
      [Ask1 EXCEPT !.min_tokens_gb_hour = 1073741824],
      [Ask1 EXCEPT !.min_tokens_total = 2, !.max_penalty_den = 2],
      [Ask1 EXCEPT !.duration_start = 0, !.size_start = 0],
      [Ask1 EXCEPT !.duration_start = 3600000, !.size_start = 2, !.size_end = 3] }

PolicyTerms ==
    { Terms(token, price, penalty, 2, duration) :
          token \in {"t1", "t3"}, price \in 0..3, penalty \in {0, 1, 3},
          duration \in {500, 30000, 3600000, 5400000, 7200000} }

PolicySizes == {0, 1, 2, 3, 1024}

\* new_service: the ask of the lessor is fixed when it starts.
NewService(ask) ==
    /\ policy.pc = "none"
    /\ policy' = [pc |-> "configured", ask |-> ask]
    /\ UNCHANGED <<nodeVars, serviceVars, syncVars, merkle, commands>>

\* Service::proposal on a received proposal
Judge(lease_terms, size) ==
    /\ policy.pc # "none"
    /\ policy' = [pc |-> "judged", ask |-> policy.ask, lease_terms |-> lease_terms,
                  size |-> size,
                  result |-> proposal_of([t \in {"t1"} |-> policy.ask],
                                         lease_terms, size)]
    /\ UNCHANGED <<nodeVars, serviceVars, syncVars, merkle, commands>>

NextPolicy ==
    \/ \E ask \in Asks : NewService(ask)
    \/ \E lease_terms \in PolicyTerms, size \in PolicySizes : Judge(lease_terms, size)

SpecPolicy == Init /\ [][NextPolicy]_vars

InDuration(ask, d) == ask.duration_start <= d /\ d < ask.duration_end

InSize(ask, size) == ask.size_start <= size /\ size < ask.size_end

\* The proposal judged passes the token, duration, size and total-price
\* checks.
PassesFirstFour ==
    /\ policy.pc = "judged"
    /\ policy.lease_terms.token_address = "t1"
    /\ InDuration(policy.ask, policy.lease_terms.lease_duration)
    /\ InSize(policy.ask, policy.size)
    /\ policy.lease_terms.price >= policy.ask.min_tokens_total

\* price * 3600 * 2^30 / (duration_secs * size)
price_per_gb_hour(price, secs, size) ==
    big_div(big_div(big_mul_gb(big_mul(big(price), 3600)), secs), size)

\* C16: the checks are applied in the order token, duration range, size
\* range, total price, price rate, penalty rate and the verdict is the reason
\* of the first check that fails: an unknown token gives "token not accepted"
\* whatever the other fields are, and a duration outside
\* [duration_range.start, duration_range.end) gives "duration too short"
\* below the start and "duration too long" otherwise, whatever size and price
\* are; a later reason is given only when every earlier check passes.
C16_PolicyOrder ==
    policy.pc = "judged" =>
        LET ask == policy.ask
            t == policy.lease_terms
            d == t.lease_duration
            known == t.token_address = "t1"
            r == policy.result
        IN /\ ~known <=> r = "token not accepted"
           /\ (known /\ ~InDuration(ask, d)) =>
                  r = IF d < ask.duration_start THEN "duration too short"
                                                ELSE "duration too long"
           /\ r \in {"duration too short", "duration too long"} =>
                  (known /\ ~InDuration(ask, d))
           /\ (known /\ InDuration(ask, d) /\ ~InSize(ask, policy.size)) =>
                  r = IF policy.size < ask.size_start THEN "size too small"
                                                      ELSE "size too big"
           /\ r \in {"size too small", "size too big"} =>
                  (known /\ InDuration(ask, d) /\ ~InSize(ask, policy.size))
           /\ r = "total tokens too small" <=>
                  (/\ known /\ InDuration(ask, d) /\ InSize(ask, policy.size)
                   /\ t.price < ask.min_tokens_total)
           /\ r \in {"price per gb per hour too small", "penalty too high", "ok"} =>
                  PassesFirstFour
           /\ r = "penalty too high" =>
                  ~PriceRateTooSmall(t.price, as_secs(d), policy.size,
                                     ask.min_tokens_gb_hour)
           /\ r = "ok" => ~PenaltyRateTooHigh(ask, t.price, t.penalty)

\* A proposal whose duration is too long, whose size is out of range and
\* whose price is too small was rejected for its duration.
C16_Witness ==
    /\ policy.pc = "judged"
    /\ policy.result = "duration too long"
    /\ ~InSize(policy.ask, policy.size)
    /\ policy.lease_terms.price < policy.ask.min_tokens_total

\* C17: for a proposal that passes the token, duration, size and total-price
\* checks the verdict is "price per gb per hour too small" exactly when
\* price * 3600 * 2^30 / (duration_secs * size) is below min_tokens_gb_hour.
C17_PriceRate ==
    (/\ PassesFirstFour
     /\ as_secs(policy.lease_terms.lease_duration) > 0
     /\ policy.size > 0) =>
        (policy.result = "price per gb per hour too small" <=>
            big_lt(price_per_gb_hour(policy.lease_terms.price,
                                     as_secs(policy.lease_terms.lease_duration),
                                     policy.size),
                   big(policy.ask.min_tokens_gb_hour)))

\* The asks an ask is relaxed to: a lower min_tokens_total, a wider
\* duration_range, a wider size_range.
Relaxed(ask) ==
    {[ask EXCEPT !.min_tokens_total = m] : m \in 0..ask.min_tokens_total}
        \cup {[ask EXCEPT !.duration_start = start, !.duration_end = end] :
                  start \in {0, ask.duration_start},
                  end \in {ask.duration_end, ask.duration_end + 3600000}}
        \cup {[ask EXCEPT !.size_start = start, !.size_end = end] :
                  start \in {0, ask.size_start},
                  end \in {ask.size_end, ask.size_end + 1024}}

\* C18: policy monotonicity.  When an ask accepts (terms, size), the ask
\* with a lower min_tokens_total, a wider duration_range or a wider
\* size_range accepts the same (terms, size).
C18_PolicyMonotone ==
    (policy.pc = "judged" /\ policy.result = "ok") =>
        \A relaxed \in Relaxed(policy.ask) :
            proposal_of([t \in {"t1"} |-> relaxed], policy.lease_terms, policy.size)
                = "ok"

\* An ask with a positive min_tokens_total and ranges that do not start at 0
\* accepted a proposal.
C18_Witness ==
    /\ policy.pc = "judged"
    /\ policy.result = "ok"
    /\ policy.ask.min_tokens_total = 2
    /\ policy.ask.duration_start > 0
    /\ policy.ask.size_start > 0

RejectedReasons ==
    {"token not accepted", "duration too short", "duration too long",
     "size too small", "size too big", "total tokens too small",
     "price per gb per hour too small", "penalty too high"}

\* C38: the policy is total.  For every ask and every proposal, a duration
\* under one second, a size of 0 and a price of 0 included, it returns ok or
\* one of its eight reasons.
C38_PolicyTotal ==
    policy.pc = "judged" => policy.result \in {"ok"} \cup RejectedReasons

(***************************************************************************)
(* The deal of one proposal, from sign_proposal at the renter to           *)
(* seal_lease at the lessor (src/src/onchain.rs, src/src/p2p/p2pim.rs,     *)
(* src/src/lib.rs, src/src/reactor.rs).  A node has one secp256k1 key: its *)
(* storage address is the address of that key, and the key its peers hold  *)
(* for it after Identify is the public key of it.                          *)
(***************************************************************************)
public_key_of(node) == <<"pk", node>>

account_storage_of(node) == into_address(public_key_of(node))

\* U256::to_little_endian and from_little_endian, on a buffer of len bytes.
RECURSIVE to_little_endian(_, _)
to_little_endian(n, len) ==
    IF len = 0 THEN <<>> ELSE <<n % 256>> \o to_little_endian(n \div 256, len - 1)

RECURSIVE from_little_endian(_)
from_little_endian(bytes) ==
    IF bytes = <<>> THEN 0 ELSE bytes[1] + 256 * from_little_endian(Tail(bytes))

Uint256(n) == [data_le |-> to_little_endian(n, 32)]

\* std Duration (milliseconds here) and prost Duration {seconds, nanos}.
duration_into(duration) ==
    [seconds |-> duration \div 1000, nanos |-> (duration % 1000) * 1000000]

duration_try_into(d) ==
    IF d.seconds < 0 \/ d.nanos < 0 THEN None
    ELSE Some(d.seconds * 1000 + d.nanos \div 1000000)

\* SystemTime (seconds since the epoch here) and prost Timestamp.
timestamp_into(system_time) == [seconds |-> system_time, nanos |-> 0]

timestamp_try_into(t) == IF t.seconds < 0 THEN None ELSE Some(t.seconds)

\* Signature::serialize and deserialize: r, s and v as one byte.
serialize(signature) == <<signature.r, signature.s, signature.v % 256>>

deserialize(buf) ==
    IF Len(buf) # 3 THEN None ELSE Some([r |-> buf[1], s |-> buf[2], v |-> buf[3]])

\* From<LeaseProposal> for proto::p2p::LeaseProposal.
proposal_into(value) ==
    [nonce |-> value.nonce,
     lease_terms |->
         [token_address |-> [data |-> value.lease_terms.token_address],
          price |-> Uint256(value.lease_terms.price),
          penalty |-> Uint256(value.lease_terms.penalty),
          proposal_expiration |-> timestamp_into(value.lease_terms.proposal_expiration),
          lease_duration |-> duration_into(value.lease_terms.lease_duration)],
     signature |-> serialize(value.signature),
     data |-> value.data]

\* TryFrom<proto::p2p::LeaseProposal> for LeaseProposal.
proposal_try_from(value) ==
    LET expiration == timestamp_try_into(value.lease_terms.proposal_expiration)
        duration == duration_try_into(value.lease_terms.lease_duration)
        signature == deserialize(value.signature)
    IN IF expiration = None \/ duration = None \/ signature = None THEN None
       ELSE Some([nonce |-> value.nonce,
                  lease_terms |->
                      Terms(value.lease_terms.token_address.data,
                            from_little_endian(value.lease_terms.price.data_le),
                            from_little_endian(value.lease_terms.penalty.data_le),
                            expiration[1], duration[1]),
                  signature |-> signature[1],
                  data |-> value.data])

\* The message of Implementation::sign and its signature by the node's key.
sign_message(lessee_address, lessor_address, nonce, terms, data_parameters) ==
    <<terms.token_address, lessee_address, lessor_address, nonce,
      data_parameters.merkle_root, data_parameters.size, terms.price,
      terms.penalty, as_secs(terms.lease_duration), terms.proposal_expiration>>

sign(node, lessee_address, lessor_address, nonce, terms, data_parameters) ==
    LET message == sign_message(lessee_address, lessor_address, nonce, terms,
                                data_parameters)
    IN [r |-> <<"r", node, message>>, s |-> <<"s", node, message>>, v |-> 27]

sign_proposal(node, lessor_address, nonce, terms, data_parameters) ==
    sign(node, account_storage_of(node), lessor_address, nonce, terms,
         data_parameters)

\* seal_lease, were the two addresses of the deal exchanged.
seal_lease_exchanged(node, lessee_address, nonce, terms, data_parameters) ==
    LET lessor_address == account_storage_of(node)
    IN [lessor_signature |-> sign(node, lessor_address, lessee_address, nonce,
                                  terms, data_parameters),
        lease_deal |-> <<lessor_address, lessee_address, nonce,
                         data_parameters.merkle_root, data_parameters.size,
                         terms.price, terms.penalty,
                         as_secs(terms.lease_duration),
                         terms.proposal_expiration>>]

\* seal_lease: the signature of the lessor and the deal given to sealLease
\* of the adjudicator of the token.
seal_lease(node, lessee_address, nonce, terms, data_parameters) ==
    LET lessor_address == account_storage_of(node)
    IN [lessor_signature |-> sign(node, lessee_address, lessor_address, nonce,
                                  terms, data_parameters),
        lease_deal |-> <<lessee_address, lessor_address, nonce,
                         data_parameters.merkle_root, data_parameters.size,
                         terms.price, terms.penalty,
                         as_secs(terms.lease_duration),
                         terms.proposal_expiration>>]

DealNodes == {"p1", "p2"}

DealTerms ==
    {GoodTerms, CheapTerms, UndeployedTerms,
     Terms("t1", 258, 3, 70000, 3600500)}

DealData == {<<>>, <<7>>, <<8, 8>>}

\* lease at the renter, up to the proposal handed to the network.
DealLease(node, peer_id, nonce, terms, data) ==
    /\ deal.pc = "none"
    /\ IF root_panics(append_data(new_merkle_tree, data))
       THEN deal' = [pc |-> "panicked", renter |-> node]
       ELSE IF find_public_key(peer_id) = None
       THEN deal' = [pc |-> "peer id not found", renter |-> node]
       ELSE LET data_parameters == parameters(data)
                lessor_address == into_address(find_public_key(peer_id)[1])
                signature == sign_proposal(node, lessor_address, nonce, terms,
                                           data_parameters)
            IN deal' = [pc |-> "sent", renter |-> node, peer_id |-> peer_id,
                        signed |-> [lessee_address |-> account_storage_of(node),
                                    lessor_address |-> lessor_address,
                                    nonce |-> nonce, terms |-> terms,
                                    data_parameters |-> data_parameters,
                                    signature |-> signature],
                        message |-> proposal_into(
                                        [nonce |-> nonce, lease_terms |-> terms,
                                         signature |-> signature, data |-> data])]
    /\ UNCHANGED <<nodeVars, syncVars, merkle, commands, policy, wait, p2pVars,
                   chain_loop, handler>>

\* inject_event at the lessor for the LeaseProposal as it was sent.
DealReceive ==
    /\ deal.pc = "sent"
    /\ LET proposal_received == proposal_try_from(deal.message)
       IN IF proposal_received = None
          THEN deal' = [deal EXCEPT !.pc = "invalid"]
          ELSE deal' = [pc |-> "received", renter |-> deal.renter,
                        peer_id |-> deal.peer_id, signed |-> deal.signed,
                        proposal |-> proposal_received[1]]
    /\ UNCHANGED <<nodeVars, syncVars, merkle, commands, policy, wait, p2pVars,
                   chain_loop, handler>>

\* process_proposal_received at the lessor: the policy, the address of the
\* lessee, data.store (which can fail) and seal_lease.
DealSeal ==
    /\ deal.pc = "received"
    /\ LET p == deal.proposal
           verdict == proposal(p.lease_terms, Len(p.data))
       IN IF verdict # "ok"
          THEN deal' = [deal EXCEPT !.pc = IF verdict = "panic"
                                           THEN "panicked" ELSE "rejected"]
          ELSE IF find_public_key(deal.renter) = None
          THEN deal' = [deal EXCEPT !.pc = "panicked"]
          ELSE \/ deal' = [deal EXCEPT !.pc = "data error"]
               \/ LET lessee_address ==
                          into_address(find_public_key(deal.renter)[1])
                      data_parameters == parameters(p.data)
                      sealed == seal_lease(deal.peer_id, lessee_address, p.nonce,
                                           p.lease_terms, data_parameters)
                  IN IF p.lease_terms.token_address \notin deployments
                     THEN deal' = [deal EXCEPT !.pc = "deployment not found"]
                     ELSE deal' = [pc |-> "sealed", renter |-> deal.renter,
                                   peer_id |-> deal.peer_id,
                                   signed |-> deal.signed, proposal |-> p,
                                   data_parameters |-> data_parameters,
                                   adjudicator |-> p.lease_terms.token_address,
                                   lease_deal |-> sealed.lease_deal,
                                   lessee_signature |-> p.signature,
                                   lessor_signature |-> sealed.lessor_signature]
    /\ UNCHANGED <<nodeVars, syncVars, merkle, commands, policy, wait, p2pVars,
                   chain_loop, handler>>

NextDeal ==
    \/ \E node \in DealNodes, peer_id \in Peers, nonce \in Nonces,
          terms \in DealTerms, data \in DealData :
           DealLease(node, peer_id, nonce, terms, data)
    \/ DealReceive
    \/ DealSeal

SpecDeal == Init /\ [][NextDeal]_vars

\* The tuple the renter signed.
SignedTuple ==
    sign_message(deal.signed.lessee_address, deal.signed.lessor_address,
                 deal.signed.nonce, deal.signed.terms, deal.signed.data_parameters)

\* C37: for a proposal delivered as it was sent, the deal the lessor signs
\* and submits in seal_lease is the tuple the renter signed in sign_proposal:
\* the lessee is the storage address of the renter, the lessor the storage
\* address of the lessor, and the data parameters the lessor computes from
\* the data received are those of the renter.
C37_SameDeal ==
    deal.pc = "sealed" =>
        /\ deal.lessor_signature.r = <<"r", deal.peer_id, SignedTuple>>
        /\ deal.lessee_signature.r = <<"r", deal.renter, SignedTuple>>
        /\ deal.adjudicator = SignedTuple[1]
        /\ deal.lease_deal = SubSeq(SignedTuple, 2, 10)
        /\ deal.lease_deal[1] = account_storage_of(deal.renter)
        /\ deal.lease_deal[2] = account_storage_of(deal.peer_id)
        /\ deal.data_parameters = deal.signed.data_parameters

\* A deal was sealed between two nodes for terms whose price takes two
\* bytes and whose duration is no whole number of seconds, on two bytes of
\* data.
C37_Witness ==
    /\ deal.pc = "sealed"
    /\ deal.renter # deal.peer_id
    /\ deal.signed.terms.price > 255
    /\ deal.signed.terms.lease_duration % 1000 # 0
    /\ deal.signed.data_parameters.size = 2

(***************************************************************************)
(* The handler of one connection (src/src/libp2p/protobuf/handler.rs).     *)
(* injected is every message given to inject_event, in order, and sent     *)
(* the messages given to start_send of the substream, in order.            *)
(***************************************************************************)
Bodies == {"x", "y"}

\* inject_event: the message joins pending_messages.
HandlerInject(body) ==
    /\ ~handler.closed
    /\ Len(handler.injected) < MaxMessages
    /\ LET message == [id |-> Len(handler.injected) + 1, body |-> body]
       IN handler' = [handler EXCEPT
                         !.pending_messages = Append(@, message),
                         !.injected = Append(@, message)]
    /\ UNCHANGED <<nodeVars, syncVars, merkle, commands, policy, wait, p2pVars,
                   chain_loop, deal>>

\* inject_fully_negotiated_inbound and _outbound: the substream becomes the
\* connection; an outbound one was asked for by poll.
HandlerNegotiated(direction) ==
    /\ ~handler.closed
    /\ handler.connection = "none"
    /\ direction = "outbound" => handler.requested
    /\ handler' = [handler EXCEPT !.connection = direction]
    /\ UNCHANGED <<nodeVars, syncVars, merkle, commands, policy, wait, p2pVars,
                   chain_loop, deal>>

\* The messages the loop of poll takes from pending_messages when the
\* substream is ready for the first `ready` of them: those, and the one
\* popped before poll_ready was asked for it.
Popped(ready) == IF ready < Len(handler.pending_messages) THEN ready + 1 ELSE ready

\* poll: asks for a substream when messages wait and there is none; with a
\* connection, writes the pending messages while the substream is ready, and
\* ends the connection on an error of the substream or of its inbound side.
\* `then` is what poll_ready gives after the first `ready` messages, when
\* messages are left: Pending or an error.
HandlerPoll(ready, then, inbound) ==
    /\ ~handler.closed
    /\ IF handler.pending_messages # <<>> /\ handler.connection = "none"
          /\ ~handler.requested
       THEN handler' = [handler EXCEPT !.requested = TRUE]
       ELSE IF handler.connection = "none"
       THEN UNCHANGED handler
       ELSE /\ ready <= Len(handler.pending_messages)
            /\ handler' =
                   [handler EXCEPT
                       !.sent = @ \o SubSeq(handler.pending_messages, 1, ready),
                       !.pending_messages =
                           SubSeq(@, Popped(ready) + 1, Len(@)),
                       !.closed =
                           \/ ready < Len(handler.pending_messages) /\ then = "error"
                           \/ (/\ ~(ready < Len(handler.pending_messages)
                                    /\ then = "error")
                               /\ inbound \in {"closed", "decode error"})]
    /\ UNCHANGED <<nodeVars, syncVars, merkle, commands, policy, wait, p2pVars,
                   chain_loop, deal>>

NextHandler ==
    \/ \E body \in Bodies : HandlerInject(body)
    \/ \E direction \in {"inbound", "outbound"} : HandlerNegotiated(direction)
    \/ \E ready \in 0..MaxMessages, then \in {"pending", "error"},
          inbound \in {"pending", "message", "closed", "decode error"} :
           HandlerPoll(ready, then, inbound)

SpecHandler == Init /\ [][NextHandler]_vars

\* C39: the handler discards no queued message.  As long as it has not
\* closed the connection, every message given to inject_event was written to
\* the substream, in the order of the queue, or is still in
\* pending_messages, also when the substream is not ready for a message.
C39_NothingDiscarded ==
    ~handler.closed =>
        handler.injected = handler.sent \o handler.pending_messages

=============================================================================
